---- MODULE Spec2Model ----
(***************************************************************************)
(* A state-machine model of the iMessageWrapped statistics engine:         *)
(* Conversation loading and the single statistics pass                     *)
(* (Backend/Conversation.py), the statistic trackers (Backend/stats/*.py)  *)
(* and the cross-conversation aggregator (Backend/MessagesWrapped.py).     *)
(*                                                                         *)
(* Representation choices.                                                 *)
(*  - A Python dict is a TLA+ function with a finite domain; a defaultdict *)
(*    read of a missing key is Get / GetD, a write that creates the key is *)
(*    Put.                                                                 *)
(*  - A date is a record [year, month, day]; a datetime is a record        *)
(*    [date, hour, minute]; a timeline key (datetime truncated to the      *)
(*    hour) has minute 0.  Seconds are always 0, so every duration is a    *)
(*    whole number of minutes.                                             *)
(*  - The sender key None is the value None below.  It is the same value   *)
(*    the trackers use for "no previous message", exactly as in the code.  *)
(*  - A text is a sequence of one-character strings; the absent text       *)
(*    (None) and the empty text "" are both <<>>: the code tests the text  *)
(*    only by truthiness and iterates it only when it is a string.         *)
(***************************************************************************)
EXTENDS Integers, Sequences, FiniteSets, TLC

VARIABLES
    max_workers,         \* MessagesWrapped.max_workers
    json_files,          \* the chat_*.json files of the directory, in glob order
    pc,                  \* per file: where its load_and_calculate_conversation is
    thread,              \* Conversation.thread
    messages,            \* Conversation.messages: guid -> guids of attached reactions
    skipped_count,       \* Conversation.skipped_count
    pos,                 \* index into thread of the statistics pass
    senders,             \* Conversation.senders
    message_stats,       \* Conversation.message_stats
    attachment_stats,    \* Conversation.attachment_stats
    emoji_stats,         \* Conversation.emoji_stats
    double_text_stats,   \* Conversation.double_text_stats
    response_time_stats, \* Conversation.response_time_stats
    word_count_stats,    \* Conversation.word_count_stats
    conversations,       \* MessagesWrapped.conversations
    phase                \* "loading" until MessagesWrapped.__init__ returns, then "ready"

vars == <<max_workers, json_files, pc, thread, messages, skipped_count, pos,
          senders, message_stats, attachment_stats, emoji_stats,
          double_text_stats, response_time_stats, word_count_stats,
          conversations, phase>>

-----------------------------------------------------------------------------
(* Bounds of the model. *)

\* Total number of items over all files in the timeline specification.
MaxItems == 3
\* Number of items of the single file in the double-text specification.
MaxItemsDouble == 4
\* Number of items of the single file in the response-time specification.
MaxItemsResponse == 3
\* Number of items of the single file in the text specification.
MaxItemsText == 2
\* Number of items of the single file in the calendar specification.
MaxItemsCalendar == 2

Files == {1, 2}

-----------------------------------------------------------------------------
(* Python values. *)

None == "None"
NoneTime == [none |-> TRUE]
NoneDate == [none |-> TRUE]

EmptyDict == [k \in {} |-> 0]

Get(d, k) == IF k \in DOMAIN d THEN d[k] ELSE 0
GetD(d, k, default) == IF k \in DOMAIN d THEN d[k] ELSE default
Put(d, k, v) == [x \in DOMAIN d \cup {k} |-> IF x = k THEN v ELSE d[x]]
\* d[k] += n on a defaultdict(int)
Inc(d, k, n) == Put(d, k, Get(d, k) + n)
\* d[a][k] += n on a defaultdict(lambda: defaultdict(int))
Inc2(d, a, k, n) == Put(d, a, Inc(GetD(d, a, EmptyDict), k, n))
\* d[a][k].append(v) on a defaultdict(lambda: defaultdict(list))
Append2(d, a, k, v) ==
    Put(d, a, Put(GetD(d, a, EmptyDict), k, Append(GetD(GetD(d, a, EmptyDict), k, <<>>), v)))

Range(s) == {s[i] : i \in 1..Len(s)}

\* the key order of a dict after inserting k: a new key goes last
AppendNew(order, k) == IF k \in Range(order) THEN order ELSE Append(order, k)

Take(s, n) == SubSeq(s, 1, IF n < Len(s) THEN n ELSE Len(s))

\* sorted(s, key=lambda e: weight[e], reverse=True): descending and stable
RECURSIVE SortedDesc(_, _)
SortedDesc(s, weight) ==
    IF s = <<>> THEN <<>>
    ELSE LET i == CHOOSE i \in 1..Len(s) :
                    /\ \A j \in 1..Len(s) : weight[s[j]] <= weight[s[i]]
                    /\ \A j \in 1..(i - 1) : weight[s[j]] < weight[s[i]]
         IN <<s[i]>> \o SortedDesc(SubSeq(s, 1, i - 1) \o SubSeq(s, i + 1, Len(s)), weight)

RECURSIVE SumSeq(_)
SumSeq(s) == IF s = <<>> THEN 0 ELSE Head(s) + SumSeq(Tail(s))

RECURSIVE SumDict(_)
SumDict(d) ==
    IF DOMAIN d = {} THEN 0
    ELSE LET k == CHOOSE x \in DOMAIN d : TRUE
         IN d[k] + SumDict([x \in DOMAIN d \ {k} |-> d[x]])

-----------------------------------------------------------------------------
(* datetime.date and datetime.datetime, as far as BaseStatistic uses them. *)

IsLeap(y) == (y % 4 = 0) /\ ((y % 100 # 0) \/ (y % 400 = 0))

DaysInMonth(y, m) ==
    IF m = 2 THEN (IF IsLeap(y) THEN 29 ELSE 28)
    ELSE IF m \in {4, 6, 9, 11} THEN 30 ELSE 31

RECURSIVE DaysBeforeMonth(_, _)
DaysBeforeMonth(y, m) ==
    IF m = 1 THEN 0 ELSE DaysBeforeMonth(y, m - 1) + DaysInMonth(y, m - 1)

DaysBeforeYear(y) ==
    LET p == y - 1 IN 365 * p + (p \div 4) - (p \div 100) + (p \div 400)

\* date.toordinal(): 0001-01-01 is day 1
ToOrdinal(d) == DaysBeforeYear(d.year) + DaysBeforeMonth(d.year, d.month) + d.day

\* date.weekday(): Monday is 0
Weekday(d) == (ToOrdinal(d) + 6) % 7

PrevDay(d) ==
    IF d.day > 1 THEN [d EXCEPT !.day = d.day - 1]
    ELSE IF d.month > 1
         THEN [year |-> d.year, month |-> d.month - 1, day |-> DaysInMonth(d.year, d.month - 1)]
         ELSE [year |-> d.year - 1, month |-> 12, day |-> 31]

\* date - timedelta(days=n)
RECURSIVE DateMinusDays(_, _)
DateMinusDays(d, n) == IF n = 0 THEN d ELSE DateMinusDays(PrevDay(d), n - 1)

\* datetime.combine(date, time(hour=hour))
Combine(date, hour) == [date |-> date, hour |-> hour, minute |-> 0]

IsDatetime(k) == "hour" \in DOMAIN k

\* dt.date() when dt is a datetime, dt itself when it is a date
DateOf(k) == IF IsDatetime(k) THEN k.date ELSE k

\* minutes since 0001-01-01 00:00 of a datetime, or of midnight of a date
Minutes(k) ==
    IF IsDatetime(k) THEN (ToOrdinal(k.date) * 24 + k.hour) * 60 + k.minute
    ELSE ToOrdinal(k) * 24 * 60

\* the order of sorted() on dates and on datetimes
KeyLess(a, b) == Minutes(a) < Minutes(b)

\* (b - a).total_seconds() / 60
MinutesBetween(a, b) == Minutes(b) - Minutes(a)

\* sorted(keys): ascending
RECURSIVE SortKeys(_)
SortKeys(S) ==
    IF S = {} THEN <<>>
    ELSE LET m == CHOOSE x \in S : \A y \in S : ~KeyLess(y, x)
         IN <<m>> \o SortKeys(S \ {m})

-----------------------------------------------------------------------------
(* stats/BaseStatistic.py *)

Periods == {"hour", "day", "week", "month", "year"}

ValueError == [error |-> "ValueError"]

BaseStatistic ==
    [timeline |-> EmptyDict, timeline_by_sender |-> EmptyDict,
     by_hour |-> EmptyDict, by_hour_by_sender |-> EmptyDict]

\* _get_period_key with weeks that start on Sunday
PeriodKeySundayWeek(dt, period) ==
    IF period = "hour" THEN [dt EXCEPT !.minute = 0]
    ELSE IF period = "day" THEN dt.date
    ELSE IF period = "week" THEN DateMinusDays(dt.date, (Weekday(dt.date) + 1) % 7)
    ELSE IF period = "month" THEN [dt.date EXCEPT !.day = 1]
    ELSE IF period = "year" THEN [dt.date EXCEPT !.month = 1, !.day = 1]
    ELSE ValueError

_get_period_key(dt, period) ==
    IF period = "hour" THEN [dt EXCEPT !.minute = 0]
    ELSE IF period = "day" THEN dt.date
    ELSE IF period = "week" THEN DateMinusDays(dt.date, Weekday(dt.date))
    ELSE IF period = "month" THEN [dt.date EXCEPT !.day = 1]
    ELSE IF period = "year" THEN [dt.date EXCEPT !.month = 1, !.day = 1]
    ELSE ValueError

\* _record_base with "= 1" in place of "+= 1" on the two timelines
RecordBaseOverwrite(st, sender, date, hour) ==
    LET datetime_key == Combine(date, hour)
    IN [st EXCEPT !.timeline = Put(@, datetime_key, 1),
                  !.timeline_by_sender =
                      Put(@, sender, Put(GetD(@, sender, EmptyDict), datetime_key, 1)),
                  !.by_hour = Inc(@, hour, 1),
                  !.by_hour_by_sender = Inc2(@, sender, hour, 1)]

\* _record_base without the line "self.by_hour[hour] += 1"
RecordBaseWithoutByHour(st, sender, date, hour) ==
    LET datetime_key == Combine(date, hour)
    IN [st EXCEPT !.timeline = Inc(@, datetime_key, 1),
                  !.timeline_by_sender = Inc2(@, sender, datetime_key, 1),
                  !.by_hour_by_sender = Inc2(@, sender, hour, 1)]

_record_base(st, sender, date, hour) ==
    LET datetime_key == Combine(date, hour)
    IN [st EXCEPT !.timeline = Inc(@, datetime_key, 1),
                  !.timeline_by_sender = Inc2(@, sender, datetime_key, 1),
                  !.by_hour = Inc(@, hour, 1),
                  !.by_hour_by_sender = Inc2(@, sender, hour, 1)]

\* for dt, count in timeline_data.items(): aggregated[key(dt)] += count
RECURSIVE AggregateInto(_, _, _)
AggregateInto(aggregated, timeline_data, period) ==
    IF DOMAIN timeline_data = {} THEN aggregated
    ELSE LET dt == CHOOSE x \in DOMAIN timeline_data : TRUE
             key == _get_period_key(dt, period)
         IN AggregateInto(Inc(aggregated, key, timeline_data[dt]),
                          [x \in DOMAIN timeline_data \ {dt} |-> timeline_data[x]],
                          period)

\* the result lists with the items in descending order of the bucket key
SortedResultDescending(aggregated) ==
    LET dates == SortKeys(DOMAIN aggregated)
        n == Len(dates)
    IN [dates |-> [i \in 1..n |-> dates[n + 1 - i]],
        counts |-> [i \in 1..n |-> aggregated[dates[n + 1 - i]]]]

\* sorted(aggregated.items()) split into the two result lists
SortedResult(aggregated) ==
    LET dates == SortKeys(DOMAIN aggregated)
    IN [dates |-> dates, counts |-> [i \in 1..Len(dates) |-> aggregated[dates[i]]]]

EmptyTimeline == [dates |-> <<>>, counts |-> <<>>]

get_timeline(st, sender_number, period) ==
    IF sender_number # None /\ sender_number \notin DOMAIN st.timeline_by_sender
    THEN EmptyTimeline
    ELSE LET timeline_data == IF sender_number # None
                              THEN st.timeline_by_sender[sender_number]
                              ELSE st.timeline
         IN IF period \notin Periods /\ DOMAIN timeline_data # {}
            THEN ValueError
            ELSE SortedResult(AggregateInto(EmptyDict, timeline_data, period))

Hours == 0..23

\* get_by_hour that lists only the hours that have data
GetByHourSparse(st, sender_number) ==
    IF sender_number # None /\ sender_number \notin DOMAIN st.by_hour_by_sender
    THEN [hours |-> <<>>, counts |-> <<>>]
    ELSE LET hour_data == IF sender_number # None
                          THEN st.by_hour_by_sender[sender_number]
                          ELSE st.by_hour
             hours == SelectSeq([i \in 1..24 |-> i - 1], LAMBDA h : h \in DOMAIN hour_data)
         IN [hours |-> hours, counts |-> [i \in 1..Len(hours) |-> hour_data[hours[i]]]]

get_by_hour(st, sender_number) ==
    IF sender_number # None /\ sender_number \notin DOMAIN st.by_hour_by_sender
    THEN [hours |-> [i \in 1..24 |-> i - 1], counts |-> [i \in 1..24 |-> 0]]
    ELSE LET hour_data == IF sender_number # None
                          THEN st.by_hour_by_sender[sender_number]
                          ELSE st.by_hour
         IN [hours |-> [i \in 1..24 |-> i - 1],
             counts |-> [i \in 1..24 |-> Get(hour_data, i - 1)]]

-----------------------------------------------------------------------------
(* stats/MessageStatistic.py, stats/AttachmentStatistic.py *)

IsMessage(msg) == msg.kind = "Message"
IsReaction(msg) == msg.kind = "Reaction"

MessageStatistic_record(st, msg) ==
    _record_base(st, msg.sender, msg.timestamp.date, msg.timestamp.hour)

AttachmentStatistic_record(st, msg) ==
    IF IsMessage(msg) /\ msg.has_attachment
    THEN _record_base(st, msg.sender, msg.timestamp.date, msg.timestamp.hour)
    ELSE st

-----------------------------------------------------------------------------
(* MessageProcessor.py, stats/EmojiStatistic.py *)

\* the characters of the model's texts that the emoji library's table classifies as emoji
EMOJI_DATA == {"U+1F600", "U+2764"}

extract_emojis(msg) ==
    IF msg.is_unsent THEN <<>>
    ELSE SelectSeq(msg.text, LAMBDA char : char \in EMOJI_DATA)

EmojiStatistic ==
    [timeline |-> EmptyDict, timeline_by_sender |-> EmptyDict,
     by_hour |-> EmptyDict, by_hour_by_sender |-> EmptyDict,
     item_timeline |-> EmptyDict, item_timeline_by_sender |-> EmptyDict,
     item_by_hour |-> EmptyDict, item_by_hour_by_sender |-> EmptyDict,
     emojis_by_sender |-> EmptyDict,
     \* the insertion order of the emoji keys of item_timeline and item_by_hour, and
     \* per sender of item_timeline_by_sender, item_by_hour_by_sender, emojis_by_sender
     item_order |-> <<>>, item_order_by_sender |-> EmptyDict]

\* d[a][b][k] += 1 on the three-level defaultdicts
Inc3(d, a, b, k) == Put(d, a, Inc2(GetD(d, a, EmptyDict), b, k, 1))

\* the legacy entry {"total": n, timestamp: count, ...} of one emoji of one sender
LegacyEntry == [total |-> 0, by_time |-> EmptyDict]

EmojiRecordOne(st, msg, emoji) ==
    LET date == msg.timestamp.date
        hour == msg.timestamp.hour
        mine == GetD(st.emojis_by_sender, msg.sender, EmptyDict)
        old  == GetD(mine, emoji, LegacyEntry)
        new  == [total |-> old.total + 1, by_time |-> Inc(old.by_time, msg.timestamp, 1)]
    IN [st EXCEPT !.item_timeline = Inc2(@, emoji, date, 1),
                  !.item_timeline_by_sender = Inc3(@, msg.sender, emoji, date),
                  !.item_by_hour = Inc2(@, emoji, hour, 1),
                  !.item_by_hour_by_sender = Inc3(@, msg.sender, emoji, hour),
                  !.emojis_by_sender = Put(@, msg.sender, Put(mine, emoji, new)),
                  !.item_order = AppendNew(@, emoji),
                  !.item_order_by_sender =
                      Put(@, msg.sender, AppendNew(GetD(@, msg.sender, <<>>), emoji))]

RECURSIVE EmojiRecordAll(_, _, _)
EmojiRecordAll(st, msg, emojis) ==
    IF emojis = <<>> THEN st
    ELSE EmojiRecordAll(EmojiRecordOne(st, msg, Head(emojis)), msg, Tail(emojis))

EmojiStatistic_record(st, msg) ==
    IF ~IsMessage(msg) THEN st
    ELSE LET emojis == extract_emojis(msg)
         IN IF emojis = <<>> THEN st ELSE EmojiRecordAll(st, msg, emojis)

get_totals(st, sender_number) ==
    IF sender_number \notin DOMAIN st.emojis_by_sender
    THEN << <<>>, <<>> >>
    ELSE LET emojis == st.item_order_by_sender[sender_number]
         IN <<emojis,
              [i \in 1..Len(emojis) |-> st.emojis_by_sender[sender_number][emojis[i]].total]>>

\* for date, count in dates.items(): aggregated[emoji][key(date)] += count
RECURSIVE AggregateDatesInto(_, _, _)
AggregateDatesInto(aggregated, dates, period) ==
    IF DOMAIN dates = {} THEN aggregated
    ELSE LET date == CHOOSE x \in DOMAIN dates : TRUE
             key == _get_period_key(Combine(date, 0), period)
         IN AggregateDatesInto(Inc(aggregated, key, dates[date]),
                               [x \in DOMAIN dates \ {date} |-> dates[x]], period)

\* the emojis that are in the top_n of a bucket, in the order they first are
RECURSIVE TopOrder(_, _, _)
TopOrder(seen, all_dates, TopAt) ==
    IF all_dates = <<>> THEN seen
    ELSE LET top == TopAt[Head(all_dates)]
             new == SelectSeq(top, LAMBDA e : e \notin Range(seen))
         IN TopOrder(seen \o new, Tail(all_dates), TopAt)

\* get_item_timeline that selects the top_n emojis by total count
ItemTimelineByTotal(st, sender_number, period, top_n, include_all) ==
    IF sender_number # None /\ sender_number \notin DOMAIN st.item_timeline_by_sender
    THEN [dates |-> <<>>, emojis |-> EmptyDict]
    ELSE
    LET timeline_data == IF sender_number # None
                         THEN st.item_timeline_by_sender[sender_number]
                         ELSE st.item_timeline
        order == IF sender_number # None
                 THEN st.item_order_by_sender[sender_number]
                 ELSE st.item_order
        aggregated == [emoji \in DOMAIN timeline_data |->
                          AggregateDatesInto(EmptyDict, timeline_data[emoji], period)]
        emoji_totals == [emoji \in DOMAIN aggregated |-> SumDict(aggregated[emoji])]
        selected_emojis == IF include_all THEN order
                           ELSE Take(SortedDesc(order, emoji_totals), top_n)
        all_dates == SortKeys(UNION {DOMAIN aggregated[emoji] : emoji \in Range(selected_emojis)})
    IN [dates |-> all_dates,
        emojis |-> [emoji \in Range(selected_emojis) |->
                       [i \in 1..Len(all_dates) |-> Get(aggregated[emoji], all_dates[i])]]]

get_item_timeline(st, sender_number, period, top_n, include_all) ==
    IF sender_number # None /\ sender_number \notin DOMAIN st.item_timeline_by_sender
    THEN [dates |-> <<>>, emojis |-> EmptyDict]
    ELSE
    LET timeline_data == IF sender_number # None
                         THEN st.item_timeline_by_sender[sender_number]
                         ELSE st.item_timeline
        order == IF sender_number # None
                 THEN st.item_order_by_sender[sender_number]
                 ELSE st.item_order
        aggregated == [emoji \in DOMAIN timeline_data |->
                          AggregateDatesInto(EmptyDict, timeline_data[emoji], period)]
        every_date == SortKeys(UNION {DOMAIN aggregated[emoji] : emoji \in DOMAIN aggregated})
        TopAt == [date \in Range(every_date) |->
                     Take(SortedDesc(order, [emoji \in DOMAIN aggregated |->
                                                Get(aggregated[emoji], date)]), top_n)]
        emoji_top_count == [emoji \in DOMAIN aggregated |->
                               Cardinality({date \in Range(every_date) : emoji \in Range(TopAt[date])})]
        selected_emojis ==
            IF include_all THEN order
            ELSE Take(SortedDesc(TopOrder(<<>>, every_date, TopAt), emoji_top_count), top_n)
        all_dates == SortKeys(UNION {DOMAIN aggregated[emoji] : emoji \in Range(selected_emojis)})
    IN IF period \notin Periods /\ DOMAIN timeline_data # {}
       THEN ValueError
       ELSE [dates |-> all_dates,
             emojis |-> [emoji \in Range(selected_emojis) |->
                            [i \in 1..Len(all_dates) |-> Get(aggregated[emoji], all_dates[i])]]]

get_item_by_hour(st, sender_number, top_n, include_all) ==
    IF sender_number # None /\ sender_number \notin DOMAIN st.item_by_hour_by_sender
    THEN [hours |-> [i \in 1..24 |-> i - 1], emojis |-> EmptyDict]
    ELSE
    LET hour_data == IF sender_number # None
                     THEN st.item_by_hour_by_sender[sender_number]
                     ELSE st.item_by_hour
        order == IF sender_number # None
                 THEN st.item_order_by_sender[sender_number]
                 ELSE st.item_order
        emoji_totals == [emoji \in DOMAIN hour_data |-> SumDict(hour_data[emoji])]
        selected_emojis == IF include_all THEN order
                           ELSE Take(SortedDesc(order, emoji_totals), top_n)
    IN [hours |-> [i \in 1..24 |-> i - 1],
        emojis |-> [emoji \in Range(selected_emojis) |->
                       [i \in 1..24 |-> Get(hour_data[emoji], i - 1)]]]

-----------------------------------------------------------------------------
(* stats/DoubleTextStatistic.py *)

NoText == <<"[", "N", "o", " ", "t", "e", "x", "t", " ", "c", "o", "n", "t", "e", "n", "t", "]">>

DoubleTextStatistic ==
    [timeline |-> EmptyDict, timeline_by_sender |-> EmptyDict,
     by_hour |-> EmptyDict, by_hour_by_sender |-> EmptyDict,
     time_between_timeline |-> EmptyDict, time_between_by_hour |-> EmptyDict,
     sent_timeline |-> EmptyDict, received_timeline |-> EmptyDict,
     last_message_sender |-> None, last_message_time |-> NoneTime,
     last_message_text |-> <<>>,
     current_streak_start |-> NoneTime, current_streak_start_text |-> <<>>]

\* lines 91-106 with the append only inside a longer streak
RecordTimeBetweenLongerStreak(st, msg, datetime_key, hour) ==
    IF st.current_streak_start # NoneTime /\ st.current_streak_start # st.last_message_time
    THEN LET time_diff == MinutesBetween(st.current_streak_start, msg.timestamp)
         IN [st EXCEPT !.time_between_timeline = Append2(@, msg.sender, datetime_key, time_diff),
                       !.time_between_by_hour = Append2(@, msg.sender, hour, time_diff)]
    ELSE st

\* lines 91-106: the time since current_streak_start, appended when it is set
RecordTimeBetween(st, msg, datetime_key, hour) ==
    IF st.current_streak_start # NoneTime
    THEN LET time_diff == MinutesBetween(st.current_streak_start, msg.timestamp)
         IN [st EXCEPT !.time_between_timeline = Append2(@, msg.sender, datetime_key, time_diff),
                       !.time_between_by_hour = Append2(@, msg.sender, hour, time_diff)]
    ELSE st

\* record in which a reaction counts as the previous event of the run
DoubleTextRecordReactionBreaks(st, msg) ==
    IF IsReaction(msg)
    THEN [st EXCEPT !.last_message_sender = msg.sender, !.last_message_time = msg.timestamp]
    ELSE
    LET date == msg.timestamp.date
        hour == msg.timestamp.hour
        datetime_key == Combine(date, hour)
        st1 == [st EXCEPT !.sent_timeline = Inc2(@, msg.sender, datetime_key, 1)]
        current_text == IF msg.text # <<>> THEN msg.text ELSE NoText
        st2 == IF st1.last_message_sender = msg.sender /\ st1.last_message_sender # None
               THEN LET a == _record_base(st1, msg.sender, date, hour)
                        b == RecordTimeBetween(a, msg, datetime_key, hour)
                    IN [b EXCEPT !.current_streak_start = st1.last_message_time,
                                 !.current_streak_start_text = st1.last_message_text]
               ELSE [st1 EXCEPT !.current_streak_start = msg.timestamp,
                                !.current_streak_start_text = current_text]
    IN [st2 EXCEPT !.last_message_sender = msg.sender,
                   !.last_message_time = msg.timestamp,
                   !.last_message_text = current_text]

DoubleTextStatistic_record(st, msg) ==
    IF IsReaction(msg) \/ ~IsMessage(msg) THEN st
    ELSE
    LET date == msg.timestamp.date
        hour == msg.timestamp.hour
        datetime_key == Combine(date, hour)
        st1 == [st EXCEPT !.sent_timeline = Inc2(@, msg.sender, datetime_key, 1)]
        current_text == IF msg.text # <<>> THEN msg.text ELSE NoText
        st2 == IF st1.last_message_sender = msg.sender /\ st1.last_message_sender # None
               THEN LET a == _record_base(st1, msg.sender, date, hour)
                        b == RecordTimeBetween(a, msg, datetime_key, hour)
                    IN [b EXCEPT !.current_streak_start = st1.last_message_time,
                                 !.current_streak_start_text = st1.last_message_text]
               ELSE [st1 EXCEPT !.current_streak_start = msg.timestamp,
                                !.current_streak_start_text = current_text]
    IN [st2 EXCEPT !.last_message_sender = msg.sender,
                   !.last_message_time = msg.timestamp,
                   !.last_message_text = current_text]

\* "received / total" in place of "sent / total"
RatioReceived(num, den) == <<den - num, den>>

\* sent / total as the fraction <<numerator, denominator>>
Ratio(num, den) == <<num, den>>

\* for dt, count in timeline.items(): received_data[dt] += count
RECURSIVE AddTimeline(_, _)
AddTimeline(received_data, timeline) ==
    IF DOMAIN timeline = {} THEN received_data
    ELSE LET dt == CHOOSE x \in DOMAIN timeline : TRUE
         IN AddTimeline(Inc(received_data, dt, timeline[dt]),
                        [x \in DOMAIN timeline \ {dt} |-> timeline[x]])

\* received_data: the sum of sent_timeline over the senders other than sender_number
RECURSIVE ReceivedData(_, _, _)
ReceivedData(received_data, sent_timeline, sender_number) ==
    IF DOMAIN sent_timeline = {} THEN received_data
    ELSE LET sender == CHOOSE x \in DOMAIN sent_timeline : TRUE
             rest == [x \in DOMAIN sent_timeline \ {sender} |-> sent_timeline[x]]
         IN IF sender # sender_number
            THEN ReceivedData(AddTimeline(received_data, sent_timeline[sender]),
                              rest, sender_number)
            ELSE ReceivedData(received_data, rest, sender_number)

get_sent_received_ratio_timeline(st, sender_number, period) ==
    IF sender_number \notin DOMAIN st.sent_timeline
    THEN [dates |-> <<>>, ratios |-> <<>>, sent_counts |-> <<>>, received_counts |-> <<>>]
    ELSE
    LET sent_data == st.sent_timeline[sender_number]
        received_data == ReceivedData(EmptyDict, st.sent_timeline, sender_number)
        sent_aggregated == AggregateInto(EmptyDict, sent_data, period)
        received_aggregated == AggregateInto(EmptyDict, received_data, period)
        all_dates == SortKeys(DOMAIN sent_aggregated \cup DOMAIN received_aggregated)
        n == Len(all_dates)
        sent(i) == Get(sent_aggregated, all_dates[i])
        received(i) == Get(received_aggregated, all_dates[i])
    IN IF period \notin Periods /\ (DOMAIN sent_data # {} \/ DOMAIN received_data # {})
       THEN ValueError
       ELSE [dates |-> all_dates,
             ratios |-> [i \in 1..n |-> IF sent(i) + received(i) > 0
                                        THEN Ratio(sent(i), sent(i) + received(i))
                                        ELSE Ratio(1, 2)],
             sent_counts |-> [i \in 1..n |-> sent(i)],
             received_counts |-> [i \in 1..n |-> received(i)]]

-----------------------------------------------------------------------------
(* stats/ResponseTimeStatistic.py *)

ResponseTimeStatistic ==
    [timeline |-> EmptyDict, timeline_by_sender |-> EmptyDict,
     by_hour |-> EmptyDict, by_hour_by_sender |-> EmptyDict,
     response_time_timeline |-> EmptyDict, response_time_by_hour |-> EmptyDict,
     last_message_sender |-> None, last_message_time |-> NoneTime,
     last_message_date |-> NoneDate, last_message_hour |-> None]

ResponseTimeStatistic_record(st, msg) ==
    IF ~(IsMessage(msg) \/ IsReaction(msg)) THEN st
    ELSE
    LET current_sender == msg.sender
        current_time == msg.timestamp
        current_date == current_time.date
        current_hour == current_time.hour
        st1 == IF st.last_message_sender # None /\ st.last_message_sender # current_sender
               THEN LET response_time_minutes == MinutesBetween(st.last_message_time, current_time)
                        datetime_key == Combine(st.last_message_date, st.last_message_hour)
                        a == [st EXCEPT
                                !.response_time_timeline =
                                    Append2(@, current_sender, datetime_key, response_time_minutes),
                                !.response_time_by_hour =
                                    Append2(@, current_sender, st.last_message_hour, response_time_minutes)]
                    IN _record_base(a, current_sender, st.last_message_date, st.last_message_hour)
               ELSE st
    IN [st1 EXCEPT !.last_message_sender = current_sender,
                   !.last_message_time = current_time,
                   !.last_message_date = current_date,
                   !.last_message_hour = current_hour]

-----------------------------------------------------------------------------
(* stats/WordCountStatistic.py *)

\* the characters str.split() separates words at
Whitespace == {" ", "\t", "\n"}

\* len(text.split()): the number of maximal runs of non-whitespace characters
RECURSIVE SplitCount(_, _)
SplitCount(text, in_word) ==
    IF text = <<>> THEN 0
    ELSE IF Head(text) \in Whitespace THEN SplitCount(Tail(text), FALSE)
    ELSE (IF in_word THEN 0 ELSE 1) + SplitCount(Tail(text), TRUE)

WordCountStatistic ==
    [timeline |-> EmptyDict, timeline_by_sender |-> EmptyDict,
     by_hour |-> EmptyDict, by_hour_by_sender |-> EmptyDict,
     words_per_message_timeline |-> EmptyDict, words_per_message_by_hour |-> EmptyDict,
     total_words_timeline |-> EmptyDict, total_words_by_hour |-> EmptyDict,
     debug_total_messages |-> 0, debug_messages_with_text |-> 0,
     debug_messages_recorded |-> 0]

\* record without the "if word_count == 0: return" of lines 49-50
WordCountRecordKeepZero(st, msg) ==
    LET st0 == [st EXCEPT !.debug_total_messages = @ + 1]
    IN IF IsReaction(msg) \/ ~IsMessage(msg) THEN st0
       ELSE IF msg.text = <<>> THEN st0
       ELSE
       LET st1 == [st0 EXCEPT !.debug_messages_with_text = @ + 1]
           word_count == SplitCount(msg.text, FALSE)
           date == msg.timestamp.date
           hour == msg.timestamp.hour
           datetime_key == Combine(date, hour)
           st2 == [st1 EXCEPT
                     !.debug_messages_recorded = @ + 1,
                     !.words_per_message_timeline = Append2(@, msg.sender, datetime_key, word_count),
                     !.words_per_message_by_hour = Append2(@, msg.sender, hour, word_count),
                     !.total_words_timeline = Inc2(@, msg.sender, datetime_key, word_count),
                     !.total_words_by_hour = Inc2(@, msg.sender, hour, word_count)]
       IN _record_base(st2, msg.sender, date, hour)

WordCountStatistic_record(st, msg) ==
    LET st0 == [st EXCEPT !.debug_total_messages = @ + 1]
    IN IF IsReaction(msg) \/ ~IsMessage(msg) THEN st0
       ELSE IF msg.text = <<>> THEN st0
       ELSE
       LET st1 == [st0 EXCEPT !.debug_messages_with_text = @ + 1]
           word_count == SplitCount(msg.text, FALSE)
       IN IF word_count = 0 THEN st1
          ELSE
          LET date == msg.timestamp.date
              hour == msg.timestamp.hour
              datetime_key == Combine(date, hour)
              st2 == [st1 EXCEPT
                        !.debug_messages_recorded = @ + 1,
                        !.words_per_message_timeline = Append2(@, msg.sender, datetime_key, word_count),
                        !.words_per_message_by_hour = Append2(@, msg.sender, hour, word_count),
                        !.total_words_timeline = Inc2(@, msg.sender, datetime_key, word_count),
                        !.total_words_by_hour = Inc2(@, msg.sender, hour, word_count)]
          IN _record_base(st2, msg.sender, date, hour)

-----------------------------------------------------------------------------
(* The median and mean queries of the trackers.  A number that a division    *)
(* produces is the fraction <<numerator, denominator>>, not reduced; the int  *)
(* 0 of an empty list is <<0, 1>> and an element x of a list is <<x, 1>>.     *)

\* sorted(lst) on numbers: ascending
RECURSIVE SortedAsc(_)
SortedAsc(lst) ==
    IF lst = <<>> THEN <<>>
    ELSE LET i == CHOOSE i \in 1..Len(lst) : \A j \in 1..Len(lst) : lst[i] <= lst[j]
         IN <<lst[i]>> \o SortedAsc(SubSeq(lst, 1, i - 1) \o SubSeq(lst, i + 1, Len(lst)))

DoubleTextStatistic_median(lst) ==
    IF lst = <<>> THEN <<0, 1>>
    ELSE LET sorted_lst == SortedAsc(lst)
             n == Len(sorted_lst)
         IN IF n % 2 = 0
            THEN <<sorted_lst[(n \div 2 - 1) + 1] + sorted_lst[(n \div 2) + 1], 2>>
            ELSE <<sorted_lst[(n \div 2) + 1], 1>>

ResponseTimeStatistic_median(lst) ==
    IF lst = <<>> THEN <<0, 1>>
    ELSE LET sorted_lst == SortedAsc(lst)
             n == Len(sorted_lst)
         IN IF n % 2 = 0
            THEN <<sorted_lst[(n \div 2 - 1) + 1] + sorted_lst[(n \div 2) + 1], 2>>
            ELSE <<sorted_lst[(n \div 2) + 1], 1>>

\* _median without the sort of line 90
MedianUnsorted(lst) ==
    IF lst = <<>> THEN <<0, 1>>
    ELSE LET n == Len(lst)
         IN IF n % 2 = 0
            THEN <<lst[(n \div 2 - 1) + 1] + lst[(n \div 2) + 1], 2>>
            ELSE <<lst[(n \div 2) + 1], 1>>

WordCountStatistic_median(lst) ==
    IF lst = <<>> THEN <<0, 1>>
    ELSE LET sorted_lst == SortedAsc(lst)
             n == Len(sorted_lst)
         IN IF n % 2 = 0
            THEN <<sorted_lst[(n \div 2 - 1) + 1] + sorted_lst[(n \div 2) + 1], 2>>
            ELSE <<sorted_lst[(n \div 2) + 1], 1>>

MessagesWrapped_median(lst) ==
    IF lst = <<>> THEN <<0, 1>>
    ELSE LET sorted_lst == SortedAsc(lst)
             n == Len(sorted_lst)
         IN IF n % 2 = 0
            THEN <<sorted_lst[(n \div 2 - 1) + 1] + sorted_lst[(n \div 2) + 1], 2>>
            ELSE <<sorted_lst[(n \div 2) + 1], 1>>

\* sum(times) / len(times) if times else 0
MeanOrZero(times) == IF times # <<>> THEN <<SumSeq(times), Len(times)>> ELSE <<0, 1>>

\* for key, times in sender_data.items(): merged[key].extend(times); the order in
\* which the lists of a key are joined is not observable after a median or mean
RECURSIVE ExtendAll(_, _)
ExtendAll(merged, sender_data) ==
    IF DOMAIN sender_data = {} THEN merged
    ELSE LET key == CHOOSE x \in DOMAIN sender_data : TRUE
         IN ExtendAll(Put(merged, key, GetD(merged, key, <<>>) \o sender_data[key]),
                      [x \in DOMAIN sender_data \ {key} |-> sender_data[x]])

\* the "aggregate across all senders" loop over by_sender.values()
RECURSIVE MergeSenders(_, _)
MergeSenders(merged, by_sender) ==
    IF DOMAIN by_sender = {} THEN merged
    ELSE LET sender == CHOOSE x \in DOMAIN by_sender : TRUE
         IN MergeSenders(ExtendAll(merged, by_sender[sender]),
                         [x \in DOMAIN by_sender \ {sender} |-> by_sender[x]])

\* for dt, times in timeline_data.items(): aggregated[key(dt)].extend(times)
RECURSIVE AggregateListsInto(_, _, _)
AggregateListsInto(aggregated, timeline_data, period) ==
    IF DOMAIN timeline_data = {} THEN aggregated
    ELSE LET dt == CHOOSE x \in DOMAIN timeline_data : TRUE
             key == _get_period_key(dt, period)
         IN AggregateListsInto(
                Put(aggregated, key, GetD(aggregated, key, <<>>) \o timeline_data[dt]),
                [x \in DOMAIN timeline_data \ {dt} |-> timeline_data[x]], period)

get_avg_time_between_timeline(st, sender_number, period, use_median) ==
    IF sender_number # None /\ sender_number \notin DOMAIN st.time_between_timeline
    THEN [dates |-> <<>>, avg_minutes |-> <<>>]
    ELSE LET timeline_data == IF sender_number # None THEN st.time_between_timeline[sender_number]
                              ELSE MergeSenders(EmptyDict, st.time_between_timeline)
             aggregated == AggregateListsInto(EmptyDict, timeline_data, period)
             dates == SortKeys(DOMAIN aggregated)
         IN IF period \notin Periods /\ DOMAIN timeline_data # {}
            THEN ValueError
            ELSE [dates |-> dates,
                  avg_minutes |-> [i \in 1..Len(dates) |->
                                 IF use_median THEN DoubleTextStatistic_median(aggregated[dates[i]])
                                 ELSE MeanOrZero(aggregated[dates[i]])]]

get_avg_time_between_by_hour(st, sender_number, use_median) ==
    IF sender_number # None /\ sender_number \notin DOMAIN st.time_between_by_hour
    THEN [hours |-> [i \in 1..24 |-> i - 1], avg_minutes |-> [i \in 1..24 |-> <<0, 1>>]]
    ELSE LET hour_data == IF sender_number # None THEN st.time_between_by_hour[sender_number]
                          ELSE MergeSenders(EmptyDict, st.time_between_by_hour)
         IN [hours |-> [i \in 1..24 |-> i - 1],
             avg_minutes |-> [i \in 1..24 |->
                            LET times == GetD(hour_data, i - 1, <<>>)
                            IN IF use_median THEN DoubleTextStatistic_median(times) ELSE MeanOrZero(times)]]

get_response_time_timeline(st, sender_number, period, use_median) ==
    IF sender_number # None /\ sender_number \notin DOMAIN st.response_time_timeline
    THEN [dates |-> <<>>, avg_minutes |-> <<>>]
    ELSE LET timeline_data == IF sender_number # None THEN st.response_time_timeline[sender_number]
                              ELSE MergeSenders(EmptyDict, st.response_time_timeline)
             aggregated == AggregateListsInto(EmptyDict, timeline_data, period)
             dates == SortKeys(DOMAIN aggregated)
         IN IF period \notin Periods /\ DOMAIN timeline_data # {}
            THEN ValueError
            ELSE [dates |-> dates,
                  avg_minutes |-> [i \in 1..Len(dates) |->
                                 IF use_median THEN ResponseTimeStatistic_median(aggregated[dates[i]])
                                 ELSE MeanOrZero(aggregated[dates[i]])]]

get_response_time_by_hour(st, sender_number, use_median) ==
    IF sender_number # None /\ sender_number \notin DOMAIN st.response_time_by_hour
    THEN [hours |-> [i \in 1..24 |-> i - 1], avg_minutes |-> [i \in 1..24 |-> <<0, 1>>]]
    ELSE LET hour_data == IF sender_number # None THEN st.response_time_by_hour[sender_number]
                          ELSE MergeSenders(EmptyDict, st.response_time_by_hour)
         IN [hours |-> [i \in 1..24 |-> i - 1],
             avg_minutes |-> [i \in 1..24 |->
                            LET times == GetD(hour_data, i - 1, <<>>)
                            IN IF use_median THEN ResponseTimeStatistic_median(times) ELSE MeanOrZero(times)]]

get_words_per_message_timeline(st, sender_number, period, use_median) ==
    IF sender_number # None /\ sender_number \notin DOMAIN st.words_per_message_timeline
    THEN [dates |-> <<>>, avg_words |-> <<>>]
    ELSE LET timeline_data == IF sender_number # None THEN st.words_per_message_timeline[sender_number]
                              ELSE MergeSenders(EmptyDict, st.words_per_message_timeline)
             aggregated == AggregateListsInto(EmptyDict, timeline_data, period)
             dates == SortKeys(DOMAIN aggregated)
         IN IF period \notin Periods /\ DOMAIN timeline_data # {}
            THEN ValueError
            ELSE [dates |-> dates,
                  avg_words |-> [i \in 1..Len(dates) |->
                                 IF use_median THEN WordCountStatistic_median(aggregated[dates[i]])
                                 ELSE MeanOrZero(aggregated[dates[i]])]]

get_words_per_message_by_hour(st, sender_number, use_median) ==
    IF sender_number # None /\ sender_number \notin DOMAIN st.words_per_message_by_hour
    THEN [hours |-> [i \in 1..24 |-> i - 1], avg_words |-> [i \in 1..24 |-> <<0, 1>>]]
    ELSE LET hour_data == IF sender_number # None THEN st.words_per_message_by_hour[sender_number]
                          ELSE MergeSenders(EmptyDict, st.words_per_message_by_hour)
         IN [hours |-> [i \in 1..24 |-> i - 1],
             avg_words |-> [i \in 1..24 |->
                            LET times == GetD(hour_data, i - 1, <<>>)
                            IN IF use_median THEN WordCountStatistic_median(times) ELSE MeanOrZero(times)]]

\* for dt, count in sender_data.items(): timeline_data[dt] += count, over all senders
RECURSIVE SumSenders(_, _)
SumSenders(timeline_data, by_sender) ==
    IF DOMAIN by_sender = {} THEN timeline_data
    ELSE LET sender == CHOOSE x \in DOMAIN by_sender : TRUE
         IN SumSenders(AddTimeline(timeline_data, by_sender[sender]),
                       [x \in DOMAIN by_sender \ {sender} |-> by_sender[x]])

get_total_words_timeline(st, sender_number, period) ==
    IF sender_number # None /\ sender_number \notin DOMAIN st.total_words_timeline
    THEN EmptyTimeline
    ELSE LET timeline_data == IF sender_number # None
                              THEN st.total_words_timeline[sender_number]
                              ELSE SumSenders(EmptyDict, st.total_words_timeline)
         IN IF period \notin Periods /\ DOMAIN timeline_data # {}
            THEN ValueError
            ELSE SortedResult(AggregateInto(EmptyDict, timeline_data, period))

\* for counts in timeline_data.values(): all_counts.extend(counts)
RECURSIVE ExtendValues(_, _)
ExtendValues(all_counts, timeline_data) ==
    IF DOMAIN timeline_data = {} THEN all_counts
    ELSE LET dt == CHOOSE x \in DOMAIN timeline_data : TRUE
         IN ExtendValues(all_counts \o timeline_data[dt],
                         [x \in DOMAIN timeline_data \ {dt} |-> timeline_data[x]])

get_overall_avg_words_per_message(st, sender_number, use_median) ==
    IF sender_number # None /\ sender_number \notin DOMAIN st.words_per_message_timeline
    THEN <<0, 1>>
    ELSE LET timeline_data == IF sender_number # None
                              THEN st.words_per_message_timeline[sender_number]
                              ELSE MergeSenders(EmptyDict, st.words_per_message_timeline)
             all_counts == ExtendValues(<<>>, timeline_data)
         IN IF all_counts = <<>> THEN <<0, 1>>
            ELSE IF use_median THEN WordCountStatistic_median(all_counts)
            ELSE <<SumSeq(all_counts), Len(all_counts)>>

-----------------------------------------------------------------------------
(* Message.py, Reaction.py, iMessage.py: the objects built from one json item. *)
(* Both kinds carry the same fields here; a Reaction has no attachment and a   *)
(* Message has assoc_guid 0.                                                    *)

\* a timestamp string that datetime.fromisoformat rejects
Unparseable == [unparseable |-> TRUE]

\* iMessage.__init__ raises on the item: its timestamp cannot be parsed
Malformed(item) == item.timestamp = Unparseable

\* a sender that json gives as a list: iMessage.__init__ stores it, and it cannot be a
\* key of a dict
Unhashable == "[list]"

Message(item) ==
    [kind |-> "Message", guid |-> item.guid, timestamp |-> item.timestamp,
     sender |-> item.sender, sender_name |-> item.sender_name, text |-> item.text,
     is_unsent |-> item.is_unsent, has_attachment |-> item.attachment # None,
     assoc_guid |-> 0]

Reaction(item) ==
    [kind |-> "Reaction", guid |-> item.guid, timestamp |-> item.timestamp,
     sender |-> item.sender, sender_name |-> item.sender_name, text |-> item.text,
     is_unsent |-> item.is_unsent, has_attachment |-> FALSE,
     assoc_guid |-> item.assoc_guid]

-----------------------------------------------------------------------------
(* Conversation.py *)

NewSender(msg) ==
    [name |-> msg.sender_name, messages_sent |-> 0, reactions_sent |-> 0,
     messages_unsent |-> 0, attachments_sent |-> 0]

\* lines 87-106 of calculate_statistics: the senders table
UpdateSenders(table, msg) ==
    LET t0 == IF msg.sender \notin DOMAIN table
              THEN Put(table, msg.sender, NewSender(msg)) ELSE table
        e0 == t0[msg.sender]
        e1 == IF IsReaction(msg)
              THEN [e0 EXCEPT !.reactions_sent = @ + 1]
              ELSE [e0 EXCEPT !.messages_sent = @ + 1]
        e2 == IF msg.is_unsent THEN [e1 EXCEPT !.messages_unsent = @ + 1] ELSE e1
        e3 == IF IsMessage(msg) /\ msg.has_attachment
              THEN [e2 EXCEPT !.attachments_sent = @ + 1] ELSE e2
    IN Put(t0, msg.sender, e3)

Running(c) == pc[c] \in {"loading", "stats"}

Queued == {c \in Files : pc[c] = "queued"}

InJsonFiles(c) == \E i \in 1..Len(json_files) : json_files[i] = c

IndexOf(c) == CHOOSE i \in 1..Len(json_files) : json_files[i] = c

\* _load_conversations submits the files in batches of this many
batch_size == 100

\* the batch of a file: the executor of a batch is left, all its futures collected,
\* before the next batch is submitted
BatchOf(c) == (IndexOf(c) - 1) \div batch_size

\* the executor hands the next submitted file to a free worker
Start(c) ==
    /\ phase = "loading"
    /\ InJsonFiles(c)
    /\ pc[c] = "queued"
    /\ \A d \in Queued : InJsonFiles(d) => IndexOf(c) <= IndexOf(d)
    /\ \A d \in Files : (InJsonFiles(d) /\ BatchOf(d) < BatchOf(c)) => pc[d] = "collected"
    /\ Cardinality({d \in Files : Running(d)}) < max_workers
    /\ pc' = [pc EXCEPT ![c] = "loading"]
    /\ UNCHANGED <<max_workers, json_files, thread, messages, skipped_count, pos,
                   senders, message_stats, attachment_stats, emoji_stats,
                   double_text_stats, response_time_stats, word_count_stats,
                   conversations, phase>>

LastTimestamp(c) == thread[c][Len(thread[c])].timestamp

\* the items of a file are in chronological order
InOrder(c, item) ==
    IF thread[c] = <<>> THEN TRUE ELSE ~KeyLess(item.timestamp, LastTimestamp(c))

\* Conversation.__init__, one iteration of "for item in self.json_data"
LoadItem(c, item) ==
    /\ pc[c] = "loading"
    /\ ~Malformed(item)
    /\ InOrder(c, item)
    /\ IF item.is_reaction
       THEN /\ thread' = [thread EXCEPT ![c] = Append(@, Reaction(item))]
            /\ IF item.assoc_guid \in DOMAIN messages[c]
               THEN /\ messages' = [messages EXCEPT ![c][item.assoc_guid] = Append(@, item.guid)]
                    /\ UNCHANGED skipped_count
               ELSE /\ skipped_count' = [skipped_count EXCEPT ![c] = @ + 1]
                    /\ UNCHANGED messages
       ELSE /\ thread' = [thread EXCEPT ![c] = Append(@, Message(item))]
            /\ messages' = [messages EXCEPT ![c] = Put(@, item.guid, <<>>)]
            /\ UNCHANGED skipped_count
    /\ UNCHANGED <<max_workers, json_files, pc, pos,
                   senders, message_stats, attachment_stats, emoji_stats,
                   double_text_stats, response_time_stats, word_count_stats,
                   conversations, phase>>

\* Conversation.__init__, an iteration in which the constructor of the item raises: in
\* the try of the reaction branch it is counted, in the message branch it leaves
\* __init__ and load_and_calculate_conversation returns None
LoadItemRaises(c, item) ==
    /\ pc[c] = "loading"
    /\ Malformed(item)
    /\ IF item.is_reaction
       THEN /\ skipped_count' = [skipped_count EXCEPT ![c] = @ + 1]
            /\ UNCHANGED pc
       ELSE /\ pc' = [pc EXCEPT ![c] = "failed"]
            /\ UNCHANGED skipped_count
    /\ UNCHANGED <<max_workers, json_files, thread, messages, pos,
                   senders, message_stats, attachment_stats, emoji_stats,
                   double_text_stats, response_time_stats, word_count_stats,
                   conversations, phase>>

\* the end of the file: __init__ returns and calculate_statistics creates the trackers
BeginStats(c) ==
    /\ pc[c] = "loading"
    /\ pc' = [pc EXCEPT ![c] = "stats"]
    /\ pos' = [pos EXCEPT ![c] = 1]
    /\ senders' = [senders EXCEPT ![c] = EmptyDict]
    /\ message_stats' = [message_stats EXCEPT ![c] = BaseStatistic]
    /\ attachment_stats' = [attachment_stats EXCEPT ![c] = BaseStatistic]
    /\ emoji_stats' = [emoji_stats EXCEPT ![c] = EmojiStatistic]
    /\ double_text_stats' = [double_text_stats EXCEPT ![c] = DoubleTextStatistic]
    /\ response_time_stats' = [response_time_stats EXCEPT ![c] = ResponseTimeStatistic]
    /\ word_count_stats' = [word_count_stats EXCEPT ![c] = WordCountStatistic]
    /\ UNCHANGED <<max_workers, json_files, thread, messages, skipped_count,
                   conversations, phase>>

\* calculate_statistics, one iteration of "for msg in iterator"
RecordNext(c) ==
    /\ pc[c] = "stats"
    /\ pos[c] <= Len(thread[c])
    /\ thread[c][pos[c]].sender # Unhashable
    /\ LET msg == thread[c][pos[c]]
       IN /\ senders' = [senders EXCEPT ![c] = UpdateSenders(@, msg)]
          /\ message_stats' = [message_stats EXCEPT ![c] = MessageStatistic_record(@, msg)]
          /\ attachment_stats' = [attachment_stats EXCEPT ![c] = AttachmentStatistic_record(@, msg)]
          /\ emoji_stats' = [emoji_stats EXCEPT ![c] = EmojiStatistic_record(@, msg)]
          /\ double_text_stats' = [double_text_stats EXCEPT ![c] = DoubleTextStatistic_record(@, msg)]
          /\ response_time_stats' = [response_time_stats EXCEPT ![c] = ResponseTimeStatistic_record(@, msg)]
          /\ word_count_stats' = [word_count_stats EXCEPT ![c] = WordCountStatistic_record(@, msg)]
    /\ pos' = [pos EXCEPT ![c] = @ + 1]
    /\ UNCHANGED <<max_workers, json_files, pc, thread, messages, skipped_count,
                   conversations, phase>>

\* calculate_statistics, an iteration that raises at "msg.sender not in self.senders":
\* the except of lines 116-119 prints the error, the pass ends and the conversation is
\* returned as it is
RecordRaises(c) ==
    /\ pc[c] = "stats"
    /\ pos[c] <= Len(thread[c])
    /\ thread[c][pos[c]].sender = Unhashable
    /\ pc' = [pc EXCEPT ![c] = "returned"]
    /\ UNCHANGED <<max_workers, json_files, thread, messages, skipped_count, pos,
                   senders, message_stats, attachment_stats, emoji_stats,
                   double_text_stats, response_time_stats, word_count_stats,
                   conversations, phase>>

\* load_and_calculate_conversation returns the conversation: its future is done
Return(c) ==
    /\ pc[c] = "stats"
    /\ pos[c] > Len(thread[c])
    /\ pc' = [pc EXCEPT ![c] = "returned"]
    /\ UNCHANGED <<max_workers, json_files, thread, messages, skipped_count, pos,
                   senders, message_stats, attachment_stats, emoji_stats,
                   double_text_stats, response_time_stats, word_count_stats,
                   conversations, phase>>

\* a loader that appends the conversation of a worker that is still in its pass
CollectWhileRunning(c) ==
    /\ pc[c] \in {"stats", "returned"}
    /\ pc' = [pc EXCEPT ![c] = IF pc[c] = "returned" THEN "collected" ELSE "stats"]
    /\ conversations' = Append(conversations, c)
    /\ UNCHANGED <<max_workers, json_files, thread, messages, skipped_count, pos,
                   senders, message_stats, attachment_stats, emoji_stats,
                   double_text_stats, response_time_stats, word_count_stats,
                   phase>>

\* _load_conversations, one iteration of "for future in as_completed(...)"
Collect(c) ==
    /\ pc[c] = "returned"
    /\ pc' = [pc EXCEPT ![c] = "collected"]
    /\ conversations' = Append(conversations, c)
    /\ UNCHANGED <<max_workers, json_files, thread, messages, skipped_count, pos,
                   senders, message_stats, attachment_stats, emoji_stats,
                   double_text_stats, response_time_stats, word_count_stats,
                   phase>>

\* _load_conversations, an iteration whose future holds None: nothing is appended
CollectFailed(c) ==
    /\ pc[c] = "failed"
    /\ pc' = [pc EXCEPT ![c] = "collected"]
    /\ UNCHANGED <<max_workers, json_files, thread, messages, skipped_count, pos,
                   senders, message_stats, attachment_stats, emoji_stats,
                   double_text_stats, response_time_stats, word_count_stats,
                   conversations, phase>>

\* every future has been collected: _load_conversations and __init__ return
FinishLoading ==
    /\ phase = "loading"
    /\ \A c \in Files : InJsonFiles(c) => pc[c] = "collected"
    /\ phase' = "ready"
    /\ UNCHANGED <<max_workers, json_files, pc, thread, messages, skipped_count, pos,
                   senders, message_stats, attachment_stats, emoji_stats,
                   double_text_stats, response_time_stats, word_count_stats,
                   conversations>>

-----------------------------------------------------------------------------
(* MessagesWrapped.py: the cross-conversation queries.  They read the trackers *)
(* of the conversations in self.conversations.                                 *)

\* _in_date_range with "d <= start_date" in place of "d < start_date": the start
\* day itself is outside
InDateRangeOpenStart(dt, start_date, end_date) ==
    IF dt = NoneDate THEN FALSE
    ELSE LET d == DateOf(dt)
         IN IF start_date # NoneDate /\ ~KeyLess(start_date, d) THEN FALSE
            ELSE IF end_date # NoneDate /\ KeyLess(end_date, d) THEN FALSE
            ELSE TRUE

_in_date_range(dt, start_date, end_date) ==
    IF dt = NoneDate THEN FALSE
    ELSE LET d == DateOf(dt)
         IN IF start_date # NoneDate /\ KeyLess(d, start_date) THEN FALSE
            ELSE IF end_date # NoneDate /\ KeyLess(end_date, d) THEN FALSE
            ELSE TRUE

\* the index in the thread of the first message of a sender: the position of the
\* sender in the insertion order of convo.senders
FirstIndex(convo, key) ==
    CHOOSE i \in 1..Len(thread[convo]) :
        /\ thread[convo][i].sender = key
        /\ \A j \in 1..(i - 1) : thread[convo][j].sender # key

\* _resolve_sender_key that searches the display names before the keys
ResolveByNameFirst(convo, sender_label) ==
    IF sender_label = None THEN None
    ELSE LET named == {key \in DOMAIN senders[convo] : senders[convo][key].name = sender_label}
         IN IF named # {}
            THEN CHOOSE key \in named :
                    \A other \in named : FirstIndex(convo, key) <= FirstIndex(convo, other)
            ELSE sender_label

_resolve_sender_key(convo, sender_label) ==
    IF sender_label = None THEN None
    ELSE IF sender_label \in DOMAIN senders[convo] THEN sender_label
    ELSE LET named == {key \in DOMAIN senders[convo] : senders[convo][key].name = sender_label}
         IN IF named # {}
            THEN CHOOSE key \in named :
                    \A other \in named : FirstIndex(convo, key) <= FirstIndex(convo, other)
            ELSE sender_label

\* for dt, count in zip(data['dates'], data['counts']): the filter on dt itself
RECURSIVE AddInRange(_, _, _, _, _)
AddInRange(aggregated, dates, counts, start_date, end_date) ==
    IF dates = <<>> THEN aggregated
    ELSE LET dt == Head(dates)
             skip == (start_date # NoneDate \/ end_date # NoneDate)
                     /\ ~_in_date_range(dt, start_date, end_date)
         IN AddInRange(IF skip THEN aggregated ELSE Inc(aggregated, dt, Head(counts)),
                       Tail(dates), Tail(counts), start_date, end_date)

\* lines 580-588: the filter on the day, then the key of the day at the period
RECURSIVE AddDaysInRange(_, _, _, _, _, _)
AddDaysInRange(aggregated, dates, counts, period, start_date, end_date) ==
    IF dates = <<>> THEN aggregated
    ELSE LET dt == Head(dates)
             skip == (start_date # NoneDate \/ end_date # NoneDate)
                     /\ ~_in_date_range(dt, start_date, end_date)
             key == _get_period_key(Combine(DateOf(dt), 0), period)
         IN AddDaysInRange(IF skip THEN aggregated ELSE Inc(aggregated, key, Head(counts)),
                           Tail(dates), Tail(counts), period, start_date, end_date)

RECURSIVE MessagesTimelineOver(_, _, _, _, _, _)
MessagesTimelineOver(aggregated, convos, sender_number, period, start_date, end_date) ==
    IF convos = <<>> THEN aggregated
    ELSE LET convo == Head(convos)
             resolved == _resolve_sender_key(convo, sender_number)
             next ==
                 IF (start_date # NoneDate \/ end_date # NoneDate) /\ period # "day"
                 THEN LET data == get_timeline(message_stats[convo], resolved, "day")
                      IN AddDaysInRange(aggregated, data.dates, data.counts,
                                        period, start_date, end_date)
                 ELSE LET data == get_timeline(message_stats[convo], resolved, period)
                      IN AddInRange(aggregated, data.dates, data.counts, start_date, end_date)
         IN MessagesTimelineOver(next, Tail(convos), sender_number, period, start_date, end_date)

\* with a period that is none of the five, the call raises as soon as a key is
\* computed: for a day that passes the filter, or in get_timeline
MessagesTimelineRaises(sender_number, period, start_date, end_date) ==
    \E k \in 1..Len(conversations) :
        LET convo == conversations[k]
            resolved == _resolve_sender_key(convo, sender_number)
        IN IF start_date # NoneDate \/ end_date # NoneDate
           THEN LET data == get_timeline(message_stats[convo], resolved, "day")
                IN \E i \in 1..Len(data.dates) :
                       _in_date_range(data.dates[i], start_date, end_date)
           ELSE get_timeline(message_stats[convo], resolved, period) = ValueError

get_combined_messages_timeline(sender_number, period, start_date, end_date) ==
    IF period \notin Periods
    THEN IF MessagesTimelineRaises(sender_number, period, start_date, end_date)
         THEN ValueError ELSE EmptyTimeline
    ELSE SortedResult(MessagesTimelineOver(EmptyDict, conversations, sender_number,
                                           period, start_date, end_date))

RECURSIVE DoubleTextsTimelineOver(_, _, _, _, _, _)
DoubleTextsTimelineOver(aggregated, convos, sender_number, period, start_date, end_date) ==
    IF convos = <<>> THEN aggregated
    ELSE LET convo == Head(convos)
             resolved == _resolve_sender_key(convo, sender_number)
             data == get_timeline(double_text_stats[convo], resolved, period)
         IN DoubleTextsTimelineOver(
                AddInRange(aggregated, data.dates, data.counts, start_date, end_date),
                Tail(convos), sender_number, period, start_date, end_date)

get_combined_double_texts_timeline(sender_number, period, start_date, end_date) ==
    IF period \notin Periods
    THEN IF \E k \in 1..Len(conversations) :
                get_timeline(double_text_stats[conversations[k]],
                             _resolve_sender_key(conversations[k], sender_number),
                             period) = ValueError
         THEN ValueError ELSE EmptyTimeline
    ELSE SortedResult(DoubleTextsTimelineOver(EmptyDict, conversations, sender_number,
                                     period, start_date, end_date))

RECURSIVE AttachmentsTimelineOver(_, _, _, _, _, _)
AttachmentsTimelineOver(aggregated, convos, sender_number, period, start_date, end_date) ==
    IF convos = <<>> THEN aggregated
    ELSE LET convo == Head(convos)
             resolved == _resolve_sender_key(convo, sender_number)
             data == get_timeline(attachment_stats[convo], resolved, period)
         IN AttachmentsTimelineOver(
                AddInRange(aggregated, data.dates, data.counts, start_date, end_date),
                Tail(convos), sender_number, period, start_date, end_date)

get_combined_attachments_timeline(sender_number, period, start_date, end_date) ==
    IF period \notin Periods
    THEN IF \E k \in 1..Len(conversations) :
                get_timeline(attachment_stats[conversations[k]],
                             _resolve_sender_key(conversations[k], sender_number),
                             period) = ValueError
         THEN ValueError ELSE EmptyTimeline
    ELSE SortedResult(AttachmentsTimelineOver(EmptyDict, conversations, sender_number,
                                     period, start_date, end_date))

\* an insertion-ordered dict of counts: emoji_counts[emoji] += count
OrderedInc(od, emoji, count) ==
    [d |-> Inc(od.d, emoji, count), order |-> AppendNew(od.order, emoji)]

\* for emoji, count in zip(data[0], data[1]): emoji_counts[emoji] += count
RECURSIVE AddTotals(_, _, _)
AddTotals(emoji_counts, emojis, counts) ==
    IF emojis = <<>> THEN emoji_counts
    ELSE AddTotals(OrderedInc(emoji_counts, Head(emojis), Head(counts)),
                   Tail(emojis), Tail(counts))

\* the sum of the counts of the dates in the range
RECURSIVE SumInRange(_, _, _, _)
SumInRange(dates, counts, start_date, end_date) ==
    IF dates = <<>> THEN 0
    ELSE (IF _in_date_range(Head(dates), start_date, end_date) THEN Head(counts) ELSE 0)
         + SumInRange(Tail(dates), Tail(counts), start_date, end_date)

\* lines 663-667: an emoji with no date in the range gets no entry
RECURSIVE AddTotalsInRange(_, _, _, _, _)
AddTotalsInRange(emoji_counts, emojis, data, start_date, end_date) ==
    IF emojis = <<>> THEN emoji_counts
    ELSE LET emoji == Head(emojis)
             inside == {i \in 1..Len(data.dates) :
                           _in_date_range(data.dates[i], start_date, end_date)}
             total == SumInRange(data.dates, data.emojis[emoji], start_date, end_date)
         IN AddTotalsInRange(IF inside = {} THEN emoji_counts
                             ELSE OrderedInc(emoji_counts, emoji, total),
                             Tail(emojis), data, start_date, end_date)

RECURSIVE EmojiTotalsOver(_, _, _, _, _)
EmojiTotalsOver(emoji_counts, convos, sender_number, start_date, end_date) ==
    IF convos = <<>> THEN emoji_counts
    ELSE LET convo == Head(convos)
             resolved == _resolve_sender_key(convo, sender_number)
             next ==
                 IF start_date # NoneDate \/ end_date # NoneDate
                 THEN LET data == get_item_timeline(emoji_stats[convo], resolved, "day", 15, TRUE)
                          order == IF resolved # None
                                   THEN GetD(emoji_stats[convo].item_order_by_sender, resolved, <<>>)
                                   ELSE emoji_stats[convo].item_order
                      IN AddTotalsInRange(emoji_counts, order, data, start_date, end_date)
                 ELSE LET data == get_totals(emoji_stats[convo], resolved)
                      IN AddTotals(emoji_counts, data[1], data[2])
         IN EmojiTotalsOver(next, Tail(convos), sender_number, start_date, end_date)

get_combined_emoji_totals(sender_number, top_n, start_date, end_date) ==
    LET emoji_counts == EmojiTotalsOver([d |-> EmptyDict, order |-> <<>>], conversations,
                                        sender_number, start_date, end_date)
        sorted_emojis == Take(SortedDesc(emoji_counts.order, emoji_counts.d), top_n)
    IN <<sorted_emojis, [i \in 1..Len(sorted_emojis) |-> emoji_counts.d[sorted_emojis[i]]]>>

\* lines 697-703 for one conversation: emoji_timelines[emoji][dt] += count
RECURSIVE AddEmojiTimelines(_, _, _, _, _, _)
AddEmojiTimelines(emoji_timelines, emojis, data, top_emojis, start_date, end_date) ==
    IF emojis = {} THEN emoji_timelines
    ELSE LET emoji == CHOOSE e \in emojis : TRUE
             mine == AddInRange(GetD(emoji_timelines, emoji, EmptyDict),
                                data.dates, data.emojis[emoji], start_date, end_date)
             next == IF emoji \in top_emojis /\ DOMAIN mine # {}
                     THEN Put(emoji_timelines, emoji, mine)
                     ELSE emoji_timelines
         IN AddEmojiTimelines(next, emojis \ {emoji}, data, top_emojis, start_date, end_date)

RECURSIVE EmojiTimelinesOver(_, _, _, _, _, _, _)
EmojiTimelinesOver(emoji_timelines, convos, sender_number, period, top_emojis, start_date, end_date) ==
    IF convos = <<>> THEN emoji_timelines
    ELSE LET convo == Head(convos)
             resolved == _resolve_sender_key(convo, sender_number)
             data == get_item_timeline(emoji_stats[convo], resolved, period, 15, TRUE)
             \* the bare except of lines 704-705 drops a conversation that raises
             next == IF data = ValueError THEN emoji_timelines
                     ELSE AddEmojiTimelines(emoji_timelines, DOMAIN data.emojis, data,
                                            top_emojis, start_date, end_date)
         IN EmojiTimelinesOver(next, Tail(convos), sender_number, period, top_emojis,
                               start_date, end_date)

get_combined_emoji_timeline(sender_number, period, top_n, start_date, end_date) ==
    LET top_emojis == Range(get_combined_emoji_totals(sender_number, top_n, NoneDate, NoneDate)[1])
        emoji_timelines == EmojiTimelinesOver(EmptyDict, conversations, sender_number,
                                              period, top_emojis, start_date, end_date)
        all_dates == SortKeys(UNION {DOMAIN emoji_timelines[e] : e \in DOMAIN emoji_timelines})
    IN [dates |-> all_dates,
        emojis |-> [emoji \in top_emojis |->
                       [i \in 1..Len(all_dates) |->
                           Get(GetD(emoji_timelines, emoji, EmptyDict), all_dates[i])]]]

\* for dt, times in timeline_data.items(): the filter on dt, then
\* period_times[key(dt)].extend(times)
RECURSIVE AddListsInRange(_, _, _, _, _)
AddListsInRange(period_times, timeline_data, period, start_date, end_date) ==
    IF DOMAIN timeline_data = {} THEN period_times
    ELSE LET dt == CHOOSE x \in DOMAIN timeline_data : TRUE
             rest == [x \in DOMAIN timeline_data \ {dt} |-> timeline_data[x]]
             skip == (start_date # NoneDate \/ end_date # NoneDate)
                     /\ ~_in_date_range(dt, start_date, end_date)
             key == _get_period_key(dt, period)
         IN AddListsInRange(
                IF skip THEN period_times
                ELSE Put(period_times, key, GetD(period_times, key, <<>>) \o timeline_data[dt]),
                rest, period, start_date, end_date)

\* the raw lists of one conversation that a combined median or mean query reads:
\* those of the resolved sender, or of all senders merged; tables[convo] is the
\* tracker's table of the conversation
ListsOfConvo(tables, convo, sender_number) ==
    LET resolved == _resolve_sender_key(convo, sender_number)
    IN IF sender_number # None
       THEN IF resolved \notin DOMAIN tables[convo] THEN EmptyDict
            ELSE tables[convo][resolved]
       ELSE MergeSenders(EmptyDict, tables[convo])

\* for convo in self.conversations: ... of the combined median or mean timelines
RECURSIVE ListsTimelineOver(_, _, _, _, _, _, _)
ListsTimelineOver(period_times, convos, tables, sender_number, period, start_date, end_date) ==
    IF convos = <<>> THEN period_times
    ELSE ListsTimelineOver(
             AddListsInRange(period_times, ListsOfConvo(tables, Head(convos), sender_number),
                             period, start_date, end_date),
             Tail(convos), tables, sender_number, period, start_date, end_date)

\* a key is computed: some list of some conversation passes the filter
ListsTimelineKeyed(tables, sender_number, start_date, end_date) ==
    \E k \in 1..Len(conversations) :
        \E dt \in DOMAIN ListsOfConvo(tables, conversations[k], sender_number) :
            (start_date # NoneDate \/ end_date # NoneDate)
                => _in_date_range(dt, start_date, end_date)

get_combined_words_per_message_timeline(sender_number, period, use_median, start_date, end_date) ==
    LET tables == [c \in Files |-> word_count_stats[c].words_per_message_timeline]
    IN IF period \notin Periods
       THEN IF ListsTimelineKeyed(tables, sender_number, start_date, end_date)
            THEN ValueError ELSE [dates |-> <<>>, avg_words |-> <<>>]
       ELSE LET period_word_counts == ListsTimelineOver(EmptyDict, conversations, tables,
                                          sender_number, period, start_date, end_date)
                dates == SortKeys(DOMAIN period_word_counts)
            IN [dates |-> dates,
                avg_words |-> [i \in 1..Len(dates) |->
                                  IF use_median THEN MessagesWrapped_median(period_word_counts[dates[i]])
                                  ELSE MeanOrZero(period_word_counts[dates[i]])]]

get_combined_response_time_timeline(sender_number, period, use_median, start_date, end_date) ==
    LET tables == [c \in Files |-> response_time_stats[c].response_time_timeline]
    IN IF period \notin Periods
       THEN IF ListsTimelineKeyed(tables, sender_number, start_date, end_date)
            THEN ValueError ELSE [dates |-> <<>>, avg_minutes |-> <<>>]
       ELSE LET period_response_times == ListsTimelineOver(EmptyDict, conversations, tables,
                                             sender_number, period, start_date, end_date)
                dates == SortKeys(DOMAIN period_response_times)
            IN [dates |-> dates,
                avg_minutes |-> [i \in 1..Len(dates) |->
                                    IF use_median THEN MessagesWrapped_median(period_response_times[dates[i]])
                                    ELSE MeanOrZero(period_response_times[dates[i]])]]

\* the try of each conversation swallows the error of a period that is none of the
\* five before anything is added
get_combined_avg_time_between_double_texts_timeline(sender_number, period, use_median, start_date, end_date) ==
    LET tables == [c \in Files |-> double_text_stats[c].time_between_timeline]
    IN IF period \notin Periods THEN [dates |-> <<>>, avg_minutes |-> <<>>]
       ELSE LET period_times == ListsTimelineOver(EmptyDict, conversations, tables,
                                    sender_number, period, start_date, end_date)
                dates == SortKeys(DOMAIN period_times)
            IN [dates |-> dates,
                avg_minutes |-> [i \in 1..Len(dates) |->
                                    IF use_median THEN MessagesWrapped_median(period_times[dates[i]])
                                    ELSE MeanOrZero(period_times[dates[i]])]]

\* the keys of a timeline that pass the date filter
KeptKeys(timeline, start_date, end_date) ==
    {dt \in DOMAIN timeline : (start_date # NoneDate \/ end_date # NoneDate)
                                  => _in_date_range(dt, start_date, end_date)}

\* the word totals of one conversation that get_combined_total_words_timeline reads, in
\* both of its branches: those of the resolved key, or of all senders when it is None
TotalWordsOfConvo(convo, sender_number) ==
    LET resolved == _resolve_sender_key(convo, sender_number)
        table == word_count_stats[convo].total_words_timeline
    IN IF resolved # None
       THEN IF resolved \in DOMAIN table THEN table[resolved] ELSE EmptyDict
       ELSE SumSenders(EmptyDict, table)

RECURSIVE TotalWordsTimelineOver(_, _, _, _, _, _)
TotalWordsTimelineOver(period_totals, convos, sender_number, period, start_date, end_date) ==
    IF convos = <<>> THEN period_totals
    ELSE LET timeline == TotalWordsOfConvo(Head(convos), sender_number)
             kept == [dt \in KeptKeys(timeline, start_date, end_date) |-> timeline[dt]]
             data == SortedResult(timeline)
             next ==
                 IF (start_date # NoneDate \/ end_date # NoneDate) /\ period # "day"
                 THEN AddDaysInRange(period_totals, data.dates, data.counts,
                                     period, start_date, end_date)
                 ELSE AggregateInto(period_totals, kept, period)
         IN TotalWordsTimelineOver(next, Tail(convos), sender_number, period,
                                   start_date, end_date)

get_combined_total_words_timeline(sender_number, period, start_date, end_date) ==
    IF period \notin Periods
    THEN IF \E k \in 1..Len(conversations) :
                KeptKeys(TotalWordsOfConvo(conversations[k], sender_number),
                         start_date, end_date) # {}
         THEN ValueError ELSE EmptyTimeline
    ELSE SortedResult(TotalWordsTimelineOver(EmptyDict, conversations, sender_number,
                                             period, start_date, end_date))

\* sent_timeline.get(sender_number, {}) and the sum of the other senders, added over the
\* conversations; the label is not resolved
RECURSIVE RatioSentOver(_, _, _, _)
RatioSentOver(sent_agg, convos, sender_number, period) ==
    IF convos = <<>> THEN sent_agg
    ELSE LET table == double_text_stats[Head(convos)].sent_timeline
             sent_data == GetD(table, sender_number, EmptyDict)
         IN RatioSentOver(AggregateInto(sent_agg, sent_data, period),
                          Tail(convos), sender_number, period)

RECURSIVE RatioReceivedOver(_, _, _, _)
RatioReceivedOver(recv_agg, convos, sender_number, period) ==
    IF convos = <<>> THEN recv_agg
    ELSE LET table == double_text_stats[Head(convos)].sent_timeline
             received_data == ReceivedData(EmptyDict, table, sender_number)
         IN RatioReceivedOver(AggregateInto(recv_agg, received_data, period),
                              Tail(convos), sender_number, period)

get_combined_sent_received_ratio_timeline(sender_number, period) ==
    IF period \notin Periods
    THEN IF \E k \in 1..Len(conversations) :
                DOMAIN double_text_stats[conversations[k]].sent_timeline # {}
         THEN ValueError
         ELSE [dates |-> <<>>, ratios |-> <<>>, sent_counts |-> <<>>, received_counts |-> <<>>]
    ELSE
    LET sent_agg == RatioSentOver(EmptyDict, conversations, sender_number, period)
        recv_agg == RatioReceivedOver(EmptyDict, conversations, sender_number, period)
        all_dates == SortKeys(DOMAIN sent_agg \cup DOMAIN recv_agg)
        n == Len(all_dates)
        sent(i) == Get(sent_agg, all_dates[i])
        received(i) == Get(recv_agg, all_dates[i])
    IN [dates |-> all_dates,
        ratios |-> [i \in 1..n |-> IF sent(i) + received(i) > 0
                                   THEN Ratio(sent(i), sent(i) + received(i))
                                   ELSE Ratio(1, 2)],
        sent_counts |-> [i \in 1..n |-> sent(i)],
        received_counts |-> [i \in 1..n |-> received(i)]]

-----------------------------------------------------------------------------
(* MessagesWrapped.py: the metadata of a conversation and the rankings.  The   *)
(* label of a conversation is its file; a ratio is a fraction <<n, d>>.        *)

\* a <= b on fractions with positive denominators
FracLeq(a, b) == a[1] * b[2] <= b[1] * a[2]

\* list.sort(reverse=True) on elements s[i] with the fraction keys[i]: descending, stable
RECURSIVE SortedDescKeyed(_, _)
SortedDescKeyed(s, keys) ==
    IF s = <<>> THEN <<>>
    ELSE LET i == CHOOSE i \in 1..Len(s) :
                    /\ \A j \in 1..Len(s) : FracLeq(keys[j], keys[i])
                    /\ \A j \in 1..(i - 1) : ~FracLeq(keys[i], keys[j])
             Without(q) == SubSeq(q, 1, i - 1) \o SubSeq(q, i + 1, Len(q))
         IN <<s[i]>> \o SortedDescKeyed(Without(s), Without(keys))

\* the fallback of _is_group_convo, taken when name_dict has no name for the file
_is_group_convo(convo) == Cardinality(DOMAIN senders[convo]) > 2

\* sum(s[field] for s in convo.senders.values())
SumSent(convo, field) == SumDict([k \in DOMAIN senders[convo] |-> senders[convo][k][field]])

\* convo.senders.get(sender_number, {}).get('messages_sent', 0)
MessagesSentBy(convo, sender_number) ==
    IF sender_number \in DOMAIN senders[convo]
    THEN senders[convo][sender_number].messages_sent ELSE 0

\* _calculate_metadata for one conversation
conversation_metadata(convo) ==
    LET first_to_last == IF thread[convo] # <<>>
                         THEN MinutesBetween(thread[convo][1].timestamp, LastTimestamp(convo))
                              \div (24 * 60)
                         ELSE 1
        duration_days == IF first_to_last = 0 THEN 1 ELSE first_to_last
        total_messages == SumSent(convo, "messages_sent")
        messages_sent_you == MessagesSentBy(convo, "You")
    IN [name |-> convo,
        total_messages |-> total_messages,
        total_reactions |-> SumSent(convo, "reactions_sent"),
        total_attachments |-> SumSent(convo, "attachments_sent"),
        duration_days |-> duration_days,
        messages_per_day |-> IF duration_days > 0 THEN <<total_messages, duration_days>>
                             ELSE <<0, 1>>,
        messages_sent_you |-> messages_sent_you,
        messages_per_day_you |-> IF duration_days > 0 THEN <<messages_sent_you, duration_days>>
                                 ELSE <<0, 1>>]

\* the dates of a day timeline that are in the range
FilteredDates(data, start_date, end_date) ==
    {data.dates[i] : i \in {j \in 1..Len(data.dates) :
                               _in_date_range(data.dates[j], start_date, end_date)}}

\* (max(dates) - min(dates)).days + 1
SpanOf(dates) ==
    LET min_d == CHOOSE x \in dates : \A y \in dates : ~KeyLess(y, x)
        max_d == CHOOSE x \in dates : \A y \in dates : ~KeyLess(x, y)
    IN ToOrdinal(max_d) - ToOrdinal(min_d) + 1

\* lines 481-547: the entry of one conversation
ComparisonEntry(convo, start_date, end_date) ==
    LET meta == conversation_metadata(convo)
    IN IF start_date # NoneDate \/ end_date # NoneDate
       THEN LET all_data == get_timeline(message_stats[convo], None, "day")
                filtered_dates == FilteredDates(all_data, start_date, end_date)
                total_messages == SumInRange(all_data.dates, all_data.counts, start_date, end_date)
                you_key == _resolve_sender_key(convo, "You")
                you_data == get_timeline(message_stats[convo], you_key, "day")
                messages_sent_you == SumInRange(you_data.dates, you_data.counts,
                                                start_date, end_date)
                days_span == IF start_date # NoneDate /\ end_date # NoneDate
                             THEN ToOrdinal(end_date) - ToOrdinal(start_date) + 1
                             ELSE IF filtered_dates # {} THEN SpanOf(filtered_dates)
                             ELSE 0
                duration_days == IF days_span > 0 THEN days_span ELSE 0
            IN [meta EXCEPT !.total_messages = total_messages,
                            !.messages_sent_you = messages_sent_you,
                            !.duration_days = duration_days,
                            !.messages_per_day = IF duration_days > 0
                                                 THEN <<total_messages, duration_days>>
                                                 ELSE <<0, 1>>,
                            !.messages_per_day_you = IF duration_days > 0
                                                     THEN <<messages_sent_you, duration_days>>
                                                     ELSE <<0, 1>>]
       ELSE meta

\* x.get(sort_by, 0) as a fraction
SortKeyOf(entry, sort_by) ==
    IF sort_by \in {"messages_per_day", "messages_per_day_you"} THEN entry[sort_by]
    ELSE IF sort_by \in DOMAIN entry THEN <<entry[sort_by], 1>>
    ELSE <<0, 1>>

get_conversation_comparison_data(sort_by, top_n, start_date, end_date) ==
    LET result == [i \in 1..Len(conversations) |->
                      ComparisonEntry(conversations[i], start_date, end_date)]
        long_enough == SelectSeq(result, LAMBDA r : r.duration_days >= 5)
        sorted == IF sort_by = "messages_per_day"
                  THEN SortedDescKeyed(long_enough,
                                       [i \in 1..Len(long_enough) |->
                                           long_enough[i].messages_per_day_you])
                  ELSE SortedDescKeyed(result, [i \in 1..Len(result) |->
                                                   SortKeyOf(result[i], sort_by)])
    IN IF top_n # 0 THEN Take(sorted, top_n) ELSE sorted

\* the total of a sender in the range, from the day timeline of a tracker
TotalInRange(st, sender_number, start_date, end_date) ==
    LET data == get_timeline(st, sender_number, "day")
    IN IF start_date # NoneDate \/ end_date # NoneDate
       THEN SumInRange(data.dates, data.counts, start_date, end_date)
       ELSE SumSeq(data.counts)

\* the body of top_n_chats_by_messages_sent over the list convos: the (label, total)
\* pairs in the order of the list, the stable descending sort, the first n
TopNMessagesSentOver(convos, sender_number, n, start_date, end_date) ==
    LET convo_counts ==
            [i \in 1..Len(convos) |->
                <<convos[i],
                  IF start_date = NoneDate /\ end_date = NoneDate
                  THEN MessagesSentBy(convos[i], sender_number)
                  ELSE TotalInRange(message_stats[convos[i]], sender_number,
                                    start_date, end_date)>>]
    IN Take(SortedDescKeyed(convo_counts, [i \in 1..Len(convo_counts) |-> <<convo_counts[i][2], 1>>]), n)

top_n_chats_by_messages_sent(sender_number, n, start_date, end_date) ==
    TopNMessagesSentOver(conversations, sender_number, n, start_date, end_date)

\* total_messages_sent: from the senders tables with no date range, from the day
\* timelines of the message trackers with one
total_messages_sent(sender_number, start_date, end_date) ==
    IF start_date = NoneDate /\ end_date = NoneDate
    THEN SumSeq([i \in 1..Len(conversations) |->
                    MessagesSentBy(conversations[i], sender_number)])
    ELSE SumSeq([i \in 1..Len(conversations) |->
                    TotalInRange(message_stats[conversations[i]], sender_number,
                                 start_date, end_date)])

\* the dates of the day timeline of a sender that the range keeps
DatesKept(convo, sender_number, start_date, end_date) ==
    LET data == get_timeline(message_stats[convo], sender_number, "day")
    IN IF start_date # NoneDate \/ end_date # NoneDate
       THEN FilteredDates(data, start_date, end_date)
       ELSE Range(data.dates)

top_n_chats_by_avg_messages_per_day(sender_number, n, start_date, end_date) ==
    LET kept == SelectSeq(conversations,
                          LAMBDA convo : /\ ~_is_group_convo(convo)
                                         /\ DatesKept(convo, sender_number,
                                                      start_date, end_date) # {})
        results == [i \in 1..Len(kept) |->
                       <<kept[i],
                         <<TotalInRange(message_stats[kept[i]], sender_number,
                                        start_date, end_date),
                           SpanOf(DatesKept(kept[i], sender_number, start_date, end_date))>>>>]
    IN Take(SortedDescKeyed(results, [i \in 1..Len(results) |-> results[i][2]]), n)

top_n_chats_by_attachments_sent(sender_number, n, start_date, end_date) ==
    LET convo_attach ==
            [i \in 1..Len(conversations) |->
                <<conversations[i],
                  TotalInRange(attachment_stats[conversations[i]], sender_number,
                               start_date, end_date)>>]
    IN Take(SortedDescKeyed(convo_attach, [i \in 1..Len(convo_attach) |-> <<convo_attach[i][2], 1>>]), n)

-----------------------------------------------------------------------------
(* The inputs: json items.  The guid of an item is its position in its file. *)

Date(y, m, d) == [year |-> y, month |-> m, day |-> d]
At(date, hour, minute) == [date |-> date, hour |-> hour, minute |-> minute]

\* the display name the export gives each sender key
SenderName(sender) ==
    IF sender = None THEN "Unknown" ELSE IF sender = "A" THEN "Alice"
    ELSE IF sender = "You" THEN "You" ELSE "Bob"

Item(is_reaction, sender, timestamp, text, attachment, is_unsent, assoc_guid) ==
    [is_reaction |-> is_reaction, guid |-> 0, timestamp |-> timestamp,
     sender |-> sender, sender_name |-> SenderName(sender), text |-> text,
     attachment |-> attachment, is_unsent |-> is_unsent, assoc_guid |-> assoc_guid]

NextGuid(c) == Len(thread[c]) + 1

TotalItems == SumSeq([i \in 1..Len(json_files) |-> Len(thread[json_files[i]])])

\* Monday and Tuesday of one week, of December 2024, and the Monday of the next
\* week, of January 2025: two weeks, two months, two years
Days == {Date(2024, 12, 30), Date(2024, 12, 31), Date(2025, 1, 6)}

\* a plain text from the None sender or from A, or an emoji with an attachment from A
TimelineItems ==
    {Item(FALSE, v[1], At(d, 10, 0), v[2], v[3], FALSE, 0) :
        d \in Days,
        v \in {<<None, <<"h", "i">>, None>>,
               <<"A", <<"h", "i">>, None>>,
               <<"A", <<"U+1F600">>, "IMG_1.heic">>}}

\* MessagesWrapped.__init__ before _load_conversations: nothing is loaded
NothingLoaded ==
    /\ pc = [c \in Files |-> "queued"]
    /\ thread = [c \in Files |-> <<>>]
    /\ messages = [c \in Files |-> EmptyDict]
    /\ skipped_count = [c \in Files |-> 0]
    /\ pos = [c \in Files |-> 0]
    /\ senders = [c \in Files |-> EmptyDict]
    /\ message_stats = [c \in Files |-> BaseStatistic]
    /\ attachment_stats = [c \in Files |-> BaseStatistic]
    /\ emoji_stats = [c \in Files |-> EmojiStatistic]
    /\ double_text_stats = [c \in Files |-> DoubleTextStatistic]
    /\ response_time_stats = [c \in Files |-> ResponseTimeStatistic]
    /\ word_count_stats = [c \in Files |-> WordCountStatistic]
    /\ conversations = <<>>
    /\ phase = "loading"

Init ==
    /\ max_workers = 1
    /\ json_files = <<1, 2>>
    /\ NothingLoaded

LoadTimelineItem(c) ==
    \E t \in TimelineItems :
        /\ TotalItems < MaxItems
        /\ LoadItem(c, [t EXCEPT !.guid = NextGuid(c)])

Next ==
    \/ \E c \in Files : Start(c)
    \/ \E c \in Files : LoadTimelineItem(c)
    \/ \E c \in Files : BeginStats(c)
    \/ \E c \in Files : RecordNext(c)
    \/ \E c \in Files : Return(c)
    \/ \E c \in Files : Collect(c)
    \/ FinishLoading

Spec == Init /\ [][Next]_vars

-----------------------------------------------------------------------------
(* One export file of plain messages from A, B and the None sender, minutes  *)
(* apart around the turn of an hour.                                          *)

Day == Date(2024, 12, 31)

DoubleTimes == {At(Day, 9, 50), At(Day, 9, 55), At(Day, 9, 56), At(Day, 10, 0)}

DoubleItems ==
    {Item(FALSE, sender, t, <<"h", "i">>, None, FALSE, 0) :
        sender \in {"A", "B", None}, t \in DoubleTimes}

InitOneFile ==
    /\ max_workers = 1
    /\ json_files = <<1>>
    /\ NothingLoaded

LoadDoubleItem(c) ==
    \E t \in DoubleItems :
        /\ TotalItems < MaxItemsDouble
        /\ LoadItem(c, [t EXCEPT !.guid = NextGuid(c)])

NextDouble ==
    \/ \E c \in Files : Start(c)
    \/ \E c \in Files : LoadDoubleItem(c)
    \/ \E c \in Files : BeginStats(c)
    \/ \E c \in Files : RecordNext(c)
    \/ \E c \in Files : Return(c)
    \/ \E c \in Files : Collect(c)
    \/ FinishLoading

SpecDouble == InitOneFile /\ [][NextDouble]_vars

-----------------------------------------------------------------------------
(* One export file of messages from A, B and the None sender and of reactions *)
(* from B to the first item, in two hours of one day.                          *)

ResponseTimes == {At(Day, 9, 0), At(Day, 9, 7), At(Day, 10, 2)}

ResponseItems ==
    {Item(FALSE, sender, t, <<"h", "i">>, None, FALSE, 0) :
        sender \in {"A", "B", None}, t \in ResponseTimes}
    \cup {Item(TRUE, "B", t, <<"L", "o", "v", "e", "d">>, None, FALSE, 1) :
             t \in ResponseTimes}

LoadResponseItem(c) ==
    \E t \in ResponseItems :
        /\ TotalItems < MaxItemsResponse
        /\ LoadItem(c, [t EXCEPT !.guid = NextGuid(c)])

NextResponse ==
    \/ \E c \in Files : Start(c)
    \/ \E c \in Files : LoadResponseItem(c)
    \/ \E c \in Files : BeginStats(c)
    \/ \E c \in Files : RecordNext(c)
    \/ \E c \in Files : Return(c)
    \/ \E c \in Files : Collect(c)
    \/ FinishLoading

SpecResponse == InitOneFile /\ [][NextResponse]_vars

-----------------------------------------------------------------------------
(* One export file of messages from A, sent or unsent, with no text, only     *)
(* whitespace, a word, or a word and an emoji, and of reactions from B.        *)

Texts ==
    {<<>>, <<" ", "\t">>, <<"h", "i">>, <<"h", "i", " ", "U+1F600">>}

TextTimes == {At(Day, 10, 0), At(Day, 11, 0)}

TextItems ==
    {Item(FALSE, "A", t, text, None, is_unsent, 0) :
        t \in TextTimes, text \in Texts, is_unsent \in BOOLEAN}
    \cup {Item(TRUE, "B", t, <<"L", "o", "v", "e", "d">>, None, FALSE, 1) :
             t \in TextTimes}

LoadTextItem(c) ==
    \E t \in TextItems :
        /\ TotalItems < MaxItemsText
        /\ LoadItem(c, [t EXCEPT !.guid = NextGuid(c)])

NextText ==
    \/ \E c \in Files : Start(c)
    \/ \E c \in Files : LoadTextItem(c)
    \/ \E c \in Files : BeginStats(c)
    \/ \E c \in Files : RecordNext(c)
    \/ \E c \in Files : Return(c)
    \/ \E c \in Files : Collect(c)
    \/ FinishLoading

SpecText == InitOneFile /\ [][NextText]_vars

-----------------------------------------------------------------------------
(* SpecMedian: one file whose messages fall in one hour, with one to four      *)
(* words each, so that the lists the medians and means are taken of grow to    *)
(* four elements in any order.                                                  *)

MaxItemsMedian == 4

Words(k) == SubSeq(<<"a", " ", "b", " ", "c", " ", "d">>, 1, 2 * k - 1)

MedianItems ==
    {Item(FALSE, "A", At(Day, 10, 0), Words(k), None, FALSE, 0) : k \in 1..4}
    \cup {Item(FALSE, "A", At(Day, 10, 20), Words(1), None, FALSE, 0)}
    \cup {Item(FALSE, "B", t, Words(1), None, FALSE, 0) : t \in {At(Day, 10, 0), At(Day, 10, 45)}}

LoadMedianItem(c) ==
    \E t \in MedianItems :
        /\ TotalItems < MaxItemsMedian
        /\ LoadItem(c, [t EXCEPT !.guid = NextGuid(c)])

NextMedian ==
    \/ \E c \in Files : Start(c)
    \/ \E c \in Files : LoadMedianItem(c)
    \/ \E c \in Files : BeginStats(c)
    \/ \E c \in Files : RecordNext(c)
    \/ \E c \in Files : Return(c)
    \/ \E c \in Files : Collect(c)
    \/ FinishLoading

SpecMedian == InitOneFile /\ [][NextMedian]_vars

-----------------------------------------------------------------------------
(* SpecResolve: two files whose senders include the key "Bob" and the key "B"  *)
(* whose display name is "Bob", so that a label can be a key of one sender and *)
(* the display name of another.                                                *)

MaxItemsResolve == 3

ResolveItems ==
    {Item(FALSE, sender, At(d, 10, 0), <<"h", "i">>, None, FALSE, 0) :
        sender \in {"A", "B", "Bob", None}, d \in {Date(2024, 12, 30), Date(2024, 12, 31)}}
    \cup {Item(FALSE, "Bob", At(Date(2024, 12, 31), 10, 0), <<"U+1F600">>, "IMG_1.heic", FALSE, 0)}

LoadResolveItem(c) ==
    \E t \in ResolveItems :
        /\ TotalItems < MaxItemsResolve
        /\ LoadItem(c, [t EXCEPT !.guid = NextGuid(c)])

NextResolve ==
    \/ \E c \in Files : Start(c)
    \/ \E c \in Files : LoadResolveItem(c)
    \/ \E c \in Files : BeginStats(c)
    \/ \E c \in Files : RecordNext(c)
    \/ \E c \in Files : Return(c)
    \/ \E c \in Files : Collect(c)
    \/ FinishLoading

SpecResolve == Init /\ [][NextResolve]_vars

-----------------------------------------------------------------------------
(* SpecRanking: two files with messages of "You" and of B over eight days, so  *)
(* that one conversation can span a week and the other a single day.           *)

MaxItemsRanking == 3

RankingItems ==
    {Item(FALSE, sender, At(d, 10, 0), <<"h", "i">>, None, FALSE, 0) :
        sender \in {"You", "B"}, d \in Days}
    \cup {Item(FALSE, "You", At(Date(2024, 12, 30), 10, 0), <<"h", "i">>, "IMG_1.heic", FALSE, 0)}

LoadRankingItem(c) ==
    \E t \in RankingItems :
        /\ TotalItems < MaxItemsRanking
        /\ LoadItem(c, [t EXCEPT !.guid = NextGuid(c)])

NextRanking ==
    \/ \E c \in Files : Start(c)
    \/ \E c \in Files : LoadRankingItem(c)
    \/ \E c \in Files : BeginStats(c)
    \/ \E c \in Files : RecordNext(c)
    \/ \E c \in Files : Return(c)
    \/ \E c \in Files : Collect(c)
    \/ FinishLoading

SpecRanking == Init /\ [][NextRanking]_vars

-----------------------------------------------------------------------------
(* SpecFaulty: two files whose items include reactions to the first and second *)
(* item of the file, items with an unparseable timestamp, and a message whose  *)
(* sender is a list.                                                            *)

MaxItemsFaulty == 3

FaultyTimes == {At(Day, 10, 0), At(Day, 10, 5)}

FaultyItems ==
    {Item(FALSE, "A", t, <<"h", "i">>, None, FALSE, 0) : t \in FaultyTimes}
    \cup {Item(TRUE, "B", At(Day, 10, 5), <<"L", "o", "v", "e", "d">>, None, FALSE, g) :
             g \in {1, 2}}
    \cup {Item(r, "A", Unparseable, <<"h", "i">>, None, FALSE, 0) : r \in BOOLEAN}
    \cup {Item(FALSE, Unhashable, At(Day, 10, 5), <<"h", "i">>, None, FALSE, 0)}

LoadFaultyItem(c) ==
    \E t \in FaultyItems :
        /\ TotalItems < MaxItemsFaulty
        /\ LoadItem(c, [t EXCEPT !.guid = NextGuid(c)])

\* an item whose constructor raises; the count of skipped items is capped
LoadMalformedItem(c) ==
    \E t \in FaultyItems :
        /\ TotalItems < MaxItemsFaulty
        /\ skipped_count[c] < MaxItemsFaulty
        /\ LoadItemRaises(c, [t EXCEPT !.guid = NextGuid(c)])

NextFaulty ==
    \/ \E c \in Files : Start(c)
    \/ \E c \in Files : LoadFaultyItem(c)
    \/ \E c \in Files : LoadMalformedItem(c)
    \/ \E c \in Files : BeginStats(c)
    \/ \E c \in Files : RecordNext(c)
    \/ \E c \in Files : RecordRaises(c)
    \/ \E c \in Files : Return(c)
    \/ \E c \in Files : Collect(c)
    \/ \E c \in Files : CollectFailed(c)
    \/ FinishLoading

SpecFaulty == Init /\ [][NextFaulty]_vars

-----------------------------------------------------------------------------
(* What the claims count: the occurrences <<file, index>> of the events of the *)
(* threads, and calendar buckets computed from the calendar alone.             *)

Ev(o) == thread[o[1]][o[2]]

\* the events the statistics pass of a file has processed so far
Processed(c) == {<<c, i>> : i \in 1..(IF pos[c] = 0 THEN 0 ELSE pos[c] - 1)}

\* the events of the conversations of self.conversations
Recorded == UNION {Processed(conversations[k]) : k \in 1..Len(conversations)}

DayOf(o) == Ev(o).timestamp.date

OnOrBefore(a, b) == ToOrdinal(a) <= ToOrdinal(b)

\* start <= d <= end
DayInRange(d, start, end) == OnOrBefore(start, d) /\ OnOrBefore(d, end)

\* the Monday on or before d
MondayOf(d) ==
    CHOOSE m \in {DateMinusDays(d, n) : n \in 0..6} : ToOrdinal(m) % 7 = 1

BucketOf(d, period) ==
    IF period = "day" THEN d
    ELSE IF period = "week" THEN MondayOf(d)
    ELSE IF period = "month" THEN Date(d.year, d.month, 1)
    ELSE Date(d.year, 1, 1)

Coarse == {"week", "month", "year"}

\* the timeline of a set of occurrences: per bucket, how many of them it holds
CountTimeline(S, period) ==
    LET keys == {BucketOf(DayOf(o), period) : o \in S}
        dates == SortKeys(keys)
    IN [dates |-> dates,
        counts |-> [i \in 1..Len(dates) |->
                       Cardinality({o \in S : BucketOf(DayOf(o), period) = dates[i]})]]

InRangeOnly(S, start, end) == {o \in S : DayInRange(DayOf(o), start, end)}

-----------------------------------------------------------------------------
\* C1: with a coarse granularity and an inclusive range [start, end], the combined
\* message timeline holds, per bucket, the number of recorded events of all
\* conversations whose own day is in the range; a week whose Monday is before
\* start keeps its in-range days.
C1_RangeCountsByDay ==
    phase = "ready" =>
        \A period \in Coarse : \A start \in Days : \A end \in Days :
            get_combined_messages_timeline(None, period, start, end)
                = CountTimeline(InRangeOnly(Recorded, start, end), period)

Monday == Date(2024, 12, 30)
Tuesday == Date(2024, 12, 31)

\* Monday holds one event and Tuesday two; the filter [Tuesday, Tuesday] at week
\* granularity gives the week of that Monday with count 2, not 3 and not nothing.
C1_Witness ==
    /\ phase = "ready"
    /\ Len(conversations) = 2
    /\ Cardinality({o \in Recorded : DayOf(o) = Monday}) = 1
    /\ Cardinality({o \in Recorded : DayOf(o) = Tuesday}) = 2
    /\ get_combined_messages_timeline(None, "week", Tuesday, Tuesday)
           = [dates |-> <<Monday>>, counts |-> <<2>>]
    /\ get_combined_messages_timeline(None, "week", NoneDate, NoneDate).counts = <<3>>

-----------------------------------------------------------------------------
\* the buckets of the days of a daily timeline that are in keep, each with the sum
\* of the counts of its days
Rebucket(dates, counts, period, keep) ==
    LET inside == {i \in 1..Len(dates) : dates[i] \in keep}
        keys == {BucketOf(dates[i], period) : i \in inside}
    IN [b \in keys |->
           SumSeq([i \in 1..Len(dates) |->
                      IF i \in inside /\ BucketOf(dates[i], period) = b
                      THEN counts[i] ELSE 0])]

DaysBetween(start, end) == {d \in Days : DayInRange(d, start, end)}

\* C5: a combined message timeline asked for a sender label holds, from each
\* conversation, only the events of the sender key the label resolves to there,
\* also when that key is None.
C5_OnlyResolvedSender ==
    phase = "ready" =>
        \A label \in {"Unknown", "Alice", "A"} :
            get_combined_messages_timeline(label, "day", NoneDate, NoneDate)
                = CountTimeline({o \in Recorded :
                                    Ev(o).sender = _resolve_sender_key(o[1], label)}, "day")

\* C6: with a coarse granularity and a range, the combined double-text, attachment
\* and emoji timelines count an event if and only if its own day is in the range:
\* each is the unfiltered daily timeline with the days of the range re-bucketed.
C6_NoWholeBucketDropped ==
    phase = "ready" =>
        \A period \in Coarse : \A start \in Days : \A end \in Days :
            LET keep == DaysBetween(start, end)
                att == get_combined_attachments_timeline(None, "day", NoneDate, NoneDate)
                dbl == get_combined_double_texts_timeline(None, "day", NoneDate, NoneDate)
                emo == get_combined_emoji_timeline("A", "day", 15, NoneDate, NoneDate)
                per == [e \in DOMAIN emo.emojis |->
                           Rebucket(emo.dates, emo.emojis[e], period, keep)]
                emo_dates == SortKeys(UNION {DOMAIN per[e] : e \in DOMAIN per})
            IN /\ get_combined_attachments_timeline(None, period, start, end)
                      = SortedResult(Rebucket(att.dates, att.counts, period, keep))
               /\ get_combined_double_texts_timeline(None, period, start, end)
                      = SortedResult(Rebucket(dbl.dates, dbl.counts, period, keep))
               /\ get_combined_emoji_timeline("A", period, 15, start, end)
                      = [dates |-> emo_dates,
                         emojis |-> [e \in DOMAIN per |->
                                        [i \in 1..Len(emo_dates) |->
                                            Get(per[e], emo_dates[i])]]]

\* the sender arguments of a timeline query; None asks for all senders
SenderArgs == {None, "A", "B"}

FirstDay == Date(2024, 12, 30)
LastDay == Date(2025, 1, 6)

\* C10: for every loaded conversation, sender argument and coarse granularity, the daily
\* timeline re-bucketed by summing is the timeline asked directly at that
\* granularity; the counts of a timeline sum to the number of recorded occurrences
\* at every granularity; and the aggregator's re-bucketing of the days of a range
\* that covers every day gives the timeline asked without a range.
C10_RebucketConsistent ==
    phase = "ready" =>
    /\ \A k \in 1..Len(conversations) : \A s \in SenderArgs :
           LET c == conversations[k]
               st == message_stats[c]
               daily == get_timeline(st, s, "day")
               mine == {o \in Processed(c) : s = None \/ Ev(o).sender = s}
           IN /\ \A g \in Coarse :
                     SortedResult(Rebucket(daily.dates, daily.counts, g, Range(daily.dates)))
                         = get_timeline(st, s, g)
              /\ \A p \in Periods :
                     SumSeq(get_timeline(st, s, p).counts) = Cardinality(mine)
    /\ \A s \in SenderArgs \ {None} : \A g \in Coarse :
               get_combined_messages_timeline(s, g, FirstDay, LastDay)
                   = get_combined_messages_timeline(s, g, NoneDate, NoneDate)

\* A sent on Monday and twice on Tuesday: three days' worth in one week bucket
C10_Witness ==
    /\ phase = "ready"
    /\ get_timeline(message_stats[1], "A", "day")
           = [dates |-> <<Monday, Tuesday>>, counts |-> <<1, 2>>]
    /\ get_timeline(message_stats[1], "A", "week") = [dates |-> <<Monday>>, counts |-> <<3>>]
    /\ get_combined_messages_timeline("A", "week", FirstDay, LastDay).counts = <<3>>

-----------------------------------------------------------------------------
(* Runs, responses and buckets of the processed events of one file. *)

SenderKeys == {"A", "B", None}

HourKeyOf(o) == Combine(Ev(o).timestamp.date, Ev(o).timestamp.hour)

\* the indexes of a file's processed events that satisfy P, in thread order
Indexes(c, P(_)) ==
    SelectSeq([i \in 1..Len(thread[c]) |-> i], LAMBDA i : <<c, i>> \in Processed(c) /\ P(i))

\* the index of the last Message before index i, 0 when there is none
PrevMessage(c, i) ==
    LET before == {j \in 1..(i - 1) : IsMessage(thread[c][j])}
    IN IF before = {} THEN 0 ELSE CHOOSE j \in before : \A k \in before : k <= j

\* i is the 2nd or a later message of a run of messages of one sender
IsDoubleText(c, i) ==
    /\ IsMessage(thread[c][i])
    /\ PrevMessage(c, i) # 0
    /\ thread[c][PrevMessage(c, i)].sender = thread[c][i].sender

\* event i follows an event of another sender
IsResponse(c, i) == i > 1 /\ thread[c][i - 1].sender # thread[c][i].sender

Gap(c, j, i) == Minutes(thread[c][i].timestamp) - Minutes(thread[c][j].timestamp)

\* C2: for A and B, the time_between entries of every hour bucket are, in order,
\* the minutes from the immediately preceding message of the run to each double
\* text of the bucket, and the double-text count of the bucket is their number.
C2_TimeSincePrevious ==
    \A c \in Files : \A s \in {"A", "B"} : \A t \in DoubleTimes :
        LET key == Combine(t.date, t.hour)
            st == double_text_stats[c]
            mine == Indexes(c, LAMBDA i : /\ IsDoubleText(c, i)
                                          /\ thread[c][i].sender = s
                                          /\ HourKeyOf(<<c, i>>) = key)
            expected == [n \in 1..Len(mine) |-> Gap(c, PrevMessage(c, mine[n]), mine[n])]
        IN /\ GetD(GetD(st.time_between_timeline, s, EmptyDict), key, <<>>) = expected
           /\ GetD(GetD(st.time_between_by_hour, s, EmptyDict), t.hour, <<>>) = expected
           /\ Get(GetD(st.timeline_by_sender, s, EmptyDict), key) = Len(expected)

\* C3: the response_time entries of every responder and bucket are, in order, the
\* minutes M - P of the events M of that responder that follow an event P of
\* another sender with P in that bucket; the same under the hour of day of P.
C3_ResponseUnderPriorBucket ==
    \A c \in Files : \A s \in SenderKeys : \A t \in ResponseTimes :
        LET key == Combine(t.date, t.hour)
            st == response_time_stats[c]
            mine == Indexes(c, LAMBDA i : /\ IsResponse(c, i)
                                          /\ thread[c][i].sender = s
                                          /\ HourKeyOf(<<c, i - 1>>) = key)
            expected == [n \in 1..Len(mine) |-> Gap(c, mine[n] - 1, mine[n])]
        IN /\ GetD(GetD(st.response_time_timeline, s, EmptyDict), key, <<>>) = expected
           /\ GetD(GetD(st.response_time_by_hour, s, EmptyDict), t.hour, <<>>) = expected

\* C4: the double texts recorded for the None sender are the 2nd and later
\* messages of its runs, and the responses recorded for a sender include its
\* events that follow an event of the None sender.
C4_NoneIsASender ==
    \A c \in Files :
        /\ SumDict(GetD(double_text_stats[c].timeline_by_sender, None, EmptyDict))
               = Len(Indexes(c, LAMBDA i : IsDoubleText(c, i) /\ thread[c][i].sender = None))
        /\ \A s \in SenderKeys :
               SumDict(GetD(response_time_stats[c].timeline_by_sender, s, EmptyDict))
                   = Len(Indexes(c, LAMBDA i : IsResponse(c, i) /\ thread[c][i].sender = s))

BucketOfTime(ts, period) ==
    IF period = "hour" THEN Combine(ts.date, ts.hour) ELSE BucketOf(ts.date, period)

ProcessedMessages(c) == {o \in Processed(c) : IsMessage(Ev(o))}

NoRatios == [dates |-> <<>>, ratios |-> <<>>, sent_counts |-> <<>>, received_counts |-> <<>>]

\* the ratio timeline of X over the buckets that hold a processed message
RatiosByBucket(c, X, period) ==
    LET msgs == ProcessedMessages(c)
        dates == SortKeys({BucketOfTime(Ev(o).timestamp, period) : o \in msgs})
        In(i) == {o \in msgs : BucketOfTime(Ev(o).timestamp, period) = dates[i]}
        sent == [i \in 1..Len(dates) |-> Cardinality({o \in In(i) : Ev(o).sender = X})]
        received == [i \in 1..Len(dates) |-> Cardinality({o \in In(i) : Ev(o).sender # X})]
    IN [dates |-> dates,
        ratios |-> [i \in 1..Len(dates) |-> <<sent[i], sent[i] + received[i]>>],
        sent_counts |-> sent,
        received_counts |-> received]

\* C7, as stated: in every loaded conversation, for every sender X and granularity, the ratio timeline lists
\* every bucket that holds a message, with sent = the messages of X, received =
\* the messages of the others and ratio = sent / (sent + received).
C7_EveryBucketListed ==
    phase = "ready" =>
        \A k \in 1..Len(conversations) : \A X \in SenderKeys : \A period \in Periods :
            get_sent_received_ratio_timeline(double_text_stats[conversations[k]], X, period)
                = RatiosByBucket(conversations[k], X, period)

\* C7, amended: in every loaded conversation, the same for a sender X with at least one recorded message, with
\* 0 <= sent <= sent + received and sent + received >= 1 in every listed bucket
\* and the four lists of equal length; for an X with no recorded message the four
\* lists are empty.
C7_BucketsOfKnownSender ==
    phase = "ready" =>
    \A k \in 1..Len(conversations) : \A X \in SenderKeys : \A period \in Periods :
        LET c == conversations[k]
            r == get_sent_received_ratio_timeline(double_text_stats[c], X, period)
        IN IF \E o \in ProcessedMessages(c) : Ev(o).sender = X
           THEN /\ r = RatiosByBucket(c, X, period)
                /\ Len(r.ratios) = Len(r.dates)
                /\ Len(r.sent_counts) = Len(r.dates)
                /\ Len(r.received_counts) = Len(r.dates)
                /\ \A i \in 1..Len(r.dates) :
                       /\ 0 <= r.ratios[i][1]
                       /\ r.ratios[i][1] <= r.ratios[i][2]
                       /\ r.ratios[i][2] = r.sent_counts[i] + r.received_counts[i]
                       /\ r.ratios[i][2] >= 1
                       /\ r.received_counts[i] = 0 => r.ratios[i][1] = r.ratios[i][2]
           ELSE r = NoRatios

\* A, A, B in the hour of 9 and A alone in the hour of 10: 2/3 and 1/1 for A, and
\* nothing for the None sender, who sent nothing
C7_Witness ==
    /\ phase = "ready"
    /\ get_sent_received_ratio_timeline(double_text_stats[1], "A", "hour")
           = [dates |-> <<Combine(Day, 9), Combine(Day, 10)>>,
              ratios |-> << <<2, 3>>, <<1, 1>> >>,
              sent_counts |-> <<2, 1>>,
              received_counts |-> <<1, 0>>]
    /\ get_sent_received_ratio_timeline(double_text_stats[1], None, "hour") = NoRatios

HasWord(text) == \E i \in 1..Len(text) : text[i] \notin Whitespace

Occurrences(text, emoji) == Len(SelectSeq(text, LAMBDA char : char = emoji))

\* C8: the word-count lists, word totals and occurrence counts of every sender
\* and bucket are those of the sender's messages that are not unsent, and the
\* emoji totals are the occurrences in the messages that are not unsent, while
\* the message tracker counts every event and messages_sent every message.
C8_UnsentAddsNothing ==
    \A c \in Files :
        /\ \A s \in SenderKeys : \A t \in TextTimes :
               LET key == Combine(t.date, t.hour)
                   st == word_count_stats[c]
                   mine == Indexes(c, LAMBDA i : /\ IsMessage(thread[c][i])
                                                 /\ ~thread[c][i].is_unsent
                                                 /\ thread[c][i].sender = s
                                                 /\ HourKeyOf(<<c, i>>) = key
                                                 /\ HasWord(thread[c][i].text))
                   expected == [n \in 1..Len(mine) |-> SplitCount(thread[c][mine[n]].text, FALSE)]
               IN /\ GetD(GetD(st.words_per_message_timeline, s, EmptyDict), key, <<>>) = expected
                  /\ GetD(GetD(st.words_per_message_by_hour, s, EmptyDict), t.hour, <<>>) = expected
                  /\ Get(GetD(st.total_words_timeline, s, EmptyDict), key) = SumSeq(expected)
                  /\ Get(GetD(st.timeline_by_sender, s, EmptyDict), key) = Len(expected)
        /\ \A e \in EMOJI_DATA :
               SumDict(GetD(emoji_stats[c].item_timeline, e, EmptyDict))
                   = SumSeq([i \in 1..Len(thread[c]) |->
                                IF <<c, i>> \in ProcessedMessages(c) /\ ~thread[c][i].is_unsent
                                THEN Occurrences(thread[c][i].text, e) ELSE 0])
        /\ SumDict(message_stats[c].timeline) = Cardinality(Processed(c))
        /\ \A s \in DOMAIN senders[c] :
               senders[c][s].messages_sent
                   = Cardinality({o \in ProcessedMessages(c) : Ev(o).sender = s})

\* C9: every word-count list value, word total and occurrence count is at least 1,
\* no list, total or count exists for a sender and bucket without a message that
\* has a word, and no list is longer than the number of such messages: reactions
\* and messages with no text or only whitespace add nothing.
C9_NoZeroEntries ==
    \A c \in Files : \A s \in SenderKeys : \A t \in TextTimes :
        LET key == Combine(t.date, t.hour)
            st == word_count_stats[c]
            wordy == Indexes(c, LAMBDA i : /\ IsMessage(thread[c][i])
                                           /\ thread[c][i].sender = s
                                           /\ HourKeyOf(<<c, i>>) = key
                                           /\ HasWord(thread[c][i].text))
            sent == SelectSeq(wordy, LAMBDA i : ~thread[c][i].is_unsent)
            Listed(d, k) == s \in DOMAIN d /\ k \in DOMAIN d[s]
            Lists(d, k) ==
                Listed(d, k) => /\ Len(sent) <= Len(d[s][k])
                                /\ Len(d[s][k]) <= Len(wordy)
                                /\ Len(d[s][k]) >= 1
                                /\ \A n \in 1..Len(d[s][k]) : d[s][k][n] >= 1
            Counts(d, k) == Listed(d, k) => d[s][k] >= 1 /\ wordy # <<>>
        IN /\ Lists(st.words_per_message_timeline, key)
           /\ Lists(st.words_per_message_by_hour, t.hour)
           /\ Counts(st.total_words_timeline, key)
           /\ Counts(st.total_words_by_hour, t.hour)
           /\ Counts(st.timeline_by_sender, key)
           /\ Counts(st.by_hour_by_sender, t.hour)
           /\ wordy = <<>> /\ (\A u \in TextTimes : u.hour = t.hour => u = t)
                  => ~Listed(st.words_per_message_timeline, key)
                     /\ ~Listed(st.words_per_message_by_hour, t.hour)
           /\ key \in DOMAIN st.timeline => st.timeline[key] >= 1
           /\ t.hour \in DOMAIN st.by_hour => st.by_hour[t.hour] >= 1

\* a whitespace-only message then a message of two words, both processed: one
\* list entry, of value 2
C9_Witness ==
    /\ pos[1] = 3
    /\ thread[1][1].text = <<" ", "\t">>
    /\ ~thread[1][1].is_unsent
    /\ thread[1][2].text = <<"h", "i", " ", "U+1F600">>
    /\ word_count_stats[1].words_per_message_timeline
           = [x \in {"A"} |-> [k \in {Combine(Day, 10)} |-> <<2>>]]
    /\ word_count_stats[1].debug_total_messages = 2

-----------------------------------------------------------------------------
(* One export file of plain messages from A on the days of four weeks: the   *)
(* week of the leap day of 2024 and the three weeks around New Year 2025.    *)

\* consecutive days, from Monday 2024-02-26 to Sunday 2024-03-03 and from
\* Monday 2024-12-23 to Sunday 2025-01-12
Calendar ==
    [i \in 1..4 |-> [year |-> 2024, month |-> 2, day |-> 25 + i]]
    \o [i \in 1..3 |-> [year |-> 2024, month |-> 3, day |-> i]]
    \o [i \in 1..9 |-> [year |-> 2024, month |-> 12, day |-> 22 + i]]
    \o [i \in 1..12 |-> [year |-> 2025, month |-> 1, day |-> i]]

\* a message a minute before midnight on the odd days of the calendar, at
\* midnight on the even ones
CalendarItems ==
    {Item(FALSE, "A",
          IF i % 2 = 1 THEN At(Calendar[i], 23, 59) ELSE At(Calendar[i], 0, 0),
          <<"h", "i">>, None, FALSE, 0) : i \in 1..Len(Calendar)}

LoadCalendarItem(c) ==
    \E t \in CalendarItems :
        /\ TotalItems < MaxItemsCalendar
        /\ LoadItem(c, [t EXCEPT !.guid = NextGuid(c)])

NextCalendar ==
    \/ \E c \in Files : Start(c)
    \/ \E c \in Files : LoadCalendarItem(c)
    \/ \E c \in Files : BeginStats(c)
    \/ \E c \in Files : RecordNext(c)
    \/ \E c \in Files : Return(c)
    \/ \E c \in Files : Collect(c)
    \/ FinishLoading

SpecCalendar == InitOneFile /\ [][NextCalendar]_vars

CalIndex(d) == CHOOSE i \in 1..Len(Calendar) : Calendar[i] = d

\* the Monday on or before a day of the calendar: both runs start on a Monday
CalMonday(d) == Calendar[CalIndex(d) - ((CalIndex(d) - 1) % 7)]

CalWeek(d) == (CalIndex(d) - 1) \div 7

\* a <= b on dates, by year, then month, then day
DateLeq(a, b) ==
    \/ a.year < b.year
    \/ a.year = b.year /\ a.month < b.month
    \/ a.year = b.year /\ a.month = b.month /\ a.day <= b.day

\* C11: for the timestamp of every event, the hour key is the timestamp with
\* minute 0, the day key its date, the week key the Monday on or before its
\* date, the month key the first of its month and the year key January 1 of its
\* year; no key is later than the date; two timestamps have the same week key
\* iff they are in the same Monday-starting week; and a timeline query lists
\* exactly these keys of the processed events.
C11_PeriodKeys ==
    \A c \in Files :
        /\ \A i \in 1..Len(thread[c]) :
               LET ts == thread[c][i].timestamp
                   d == ts.date
               IN /\ _get_period_key(ts, "hour") = [date |-> d, hour |-> ts.hour, minute |-> 0]
                  /\ _get_period_key(ts, "day") = d
                  /\ _get_period_key(ts, "week") = CalMonday(d)
                  /\ _get_period_key(ts, "month") = [year |-> d.year, month |-> d.month, day |-> 1]
                  /\ _get_period_key(ts, "year") = [year |-> d.year, month |-> 1, day |-> 1]
                  /\ \A p \in Periods \ {"hour"} : DateLeq(_get_period_key(ts, p), d)
                  /\ \A j \in 1..Len(thread[c]) :
                         (_get_period_key(ts, "week")
                              = _get_period_key(thread[c][j].timestamp, "week"))
                         <=> CalWeek(d) = CalWeek(thread[c][j].timestamp.date)
        /\ \A p \in Periods :
               Range(get_timeline(message_stats[c], None, p).dates)
                   = {_get_period_key(Ev(o).timestamp, p) : o \in Processed(c)}

\* Sunday 2025-01-05 and Monday 2025-01-06: neighbours in two weeks, the first
\* in the week of Monday 2024-12-30, of another month and year
C11_Witness ==
    /\ pos[1] = 3
    /\ thread[1][1].timestamp = At(Date(2025, 1, 5), 23, 59)
    /\ thread[1][2].timestamp = At(Date(2025, 1, 6), 0, 0)
    /\ get_timeline(message_stats[1], None, "week").dates
           = <<Date(2024, 12, 30), Date(2025, 1, 6)>>
    /\ get_timeline(message_stats[1], None, "hour").dates
           = <<Combine(Date(2025, 1, 5), 23), Combine(Date(2025, 1, 6), 0)>>

-----------------------------------------------------------------------------
(* C12: the by-hour queries. *)

\* the sender arguments of the by-hour queries; "Z" is never a sender
HourArgs == {None, "A", "B", "Z"}

Range24 == [i \in 1..24 |-> i - 1]

Trackers(c) ==
    {message_stats[c], attachment_stats[c], emoji_stats[c], double_text_stats[c],
     response_time_stats[c], word_count_stats[c]}

\* <<sender argument, hours, values>> of every count query by hour of a file
CountsByHour(c) ==
    {<<s, get_by_hour(st, s).hours, get_by_hour(st, s).counts>> :
        st \in Trackers(c), s \in HourArgs}
    \cup UNION {{<<a[1], get_item_by_hour(emoji_stats[c], a[1], a[2], a[3]).hours,
                   get_item_by_hour(emoji_stats[c], a[1], a[2], a[3]).emojis[e]>> :
                     e \in DOMAIN get_item_by_hour(emoji_stats[c], a[1], a[2], a[3]).emojis} :
                 a \in HourArgs \X {0, 1, 15} \X BOOLEAN}

\* <<sender argument, hours, values>> of every median or mean query by hour of a file
AveragesByHour(c) ==
    UNION {{<<s, get_response_time_by_hour(response_time_stats[c], s, m).hours,
              get_response_time_by_hour(response_time_stats[c], s, m).avg_minutes>>,
            <<s, get_words_per_message_by_hour(word_count_stats[c], s, m).hours,
              get_words_per_message_by_hour(word_count_stats[c], s, m).avg_words>>,
            <<s, get_avg_time_between_by_hour(double_text_stats[c], s, m).hours,
              get_avg_time_between_by_hour(double_text_stats[c], s, m).avg_minutes>>} :
           s \in HourArgs, m \in BOOLEAN}

\* the hours of the events the statistics pass has seen; a response is filed under the
\* hour of the event it answers, so an hour outside this set holds no data of any sender
HoursSeen(c) == {Ev(o).timestamp.hour : o \in Processed(c)}

\* the senders of the events the statistics pass has seen
SendersSeen(c) == {Ev(o).sender : o \in Processed(c)}

\* the hours that may hold data of a sender argument
HoursOf(c, s) == IF s # None /\ s \notin SendersSeen(c) THEN {} ELSE HoursSeen(c)

\* C12: every by-hour query returns the hours 0..23 in order and 24 values, for every
\* tracker state and sender argument; an hour without data has the value 0, and a sender
\* that was never recorded has 24 zeros
C12_AlwaysTwentyFourHours ==
    \A c \in Files :
        /\ \A r \in CountsByHour(c) :
              /\ r[2] = Range24
              /\ DOMAIN r[3] = 1..24
              /\ \A h \in Hours : h \notin HoursOf(c, r[1]) => r[3][h + 1] = 0
        /\ \A r \in AveragesByHour(c) :
              /\ r[2] = Range24
              /\ DOMAIN r[3] = 1..24
              /\ \A h \in Hours : h \notin HoursOf(c, r[1]) => r[3][h + 1] = <<0, 1>>
        /\ \A a \in {"Z"} \X {0, 1, 15} \X BOOLEAN :
              get_item_by_hour(emoji_stats[c], a[1], a[2], a[3]).hours = Range24

\* two messages of A at 10:00 and 11:00, the second with an emoji: the double text of
\* hour 11 is the only hour with a time between, and the emoji has one count at hour 11
C12_Witness ==
    /\ pos[1] = 3
    /\ get_avg_time_between_by_hour(double_text_stats[1], None, FALSE).avg_minutes
           = [i \in 1..24 |-> IF i = 12 THEN <<60, 1>> ELSE <<0, 1>>]
    /\ get_words_per_message_by_hour(word_count_stats[1], "A", TRUE).avg_words[11] = <<1, 1>>
    /\ get_by_hour(message_stats[1], "A").counts
           = [i \in 1..24 |-> IF i \in {11, 12} THEN 1 ELSE 0]
    /\ get_item_by_hour(emoji_stats[1], "A", 15, FALSE).emojis
           = [e \in {"U+1F600"} |-> [i \in 1..24 |-> IF i = 12 THEN 1 ELSE 0]]
    /\ get_by_hour(message_stats[1], "Z").counts = [i \in 1..24 |-> 0]

-----------------------------------------------------------------------------
(* C13: the medians and the means. *)

\* the lists of a {sender: {key: [values]}} table
ListsOf(by_sender) == UNION {{by_sender[s][k] : k \in DOMAIN by_sender[s]} : s \in DOMAIN by_sender}

\* the lists the median and mean queries of a file work on, and the empty list
MedianInputs(c) ==
    {<<>>} \cup ListsOf(word_count_stats[c].words_per_message_by_hour)
           \cup ListsOf(word_count_stats[c].words_per_message_timeline)
           \cup ListsOf(double_text_stats[c].time_between_by_hour)
           \cup ListsOf(response_time_stats[c].response_time_by_hour)

\* the word counts of the processed messages of a sender argument that have a word
WordCountsOf(c, s) ==
    LET idx == Indexes(c, LAMBDA i : /\ IsMessage(thread[c][i])
                                     /\ s \in {None, thread[c][i].sender}
                                     /\ SplitCount(thread[c][i].text, FALSE) > 0)
    IN [i \in 1..Len(idx) |-> SplitCount(thread[c][idx[i]].text, FALSE)]

\* the k-th smallest element of a list, by counting
Kth(lst, k) ==
    CHOOSE v \in Range(lst) :
        /\ Cardinality({i \in 1..Len(lst) : lst[i] < v}) < k
        /\ Cardinality({i \in 1..Len(lst) : lst[i] <= v}) >= k

\* the median as the claim states it
MiddleOf(lst) ==
    IF lst = <<>> THEN <<0, 1>>
    ELSE IF Len(lst) % 2 = 1 THEN <<Kth(lst, (Len(lst) + 1) \div 2), 1>>
    ELSE <<Kth(lst, Len(lst) \div 2) + Kth(lst, Len(lst) \div 2 + 1), 2>>

\* C13: the four _median implementations compute the same function: the middle element of
\* the sorted list for an odd length, the average of the two middle elements for an even
\* length, 0 for the empty list ([1,2,3] gives 2, [1,2,3,4] gives 2.5, [] gives 0); and the
\* mean of every median/mean query is 0 for an empty list and divides by a positive length
C13_MediansAgree ==
    /\ \A c \in Files : \A lst \in MedianInputs(c) \cup {<<1, 2, 3>>, <<1, 2, 3, 4>>} :
          /\ MessagesWrapped_median(lst) = MiddleOf(lst)
          /\ DoubleTextStatistic_median(lst) = MiddleOf(lst)
          /\ ResponseTimeStatistic_median(lst) = MiddleOf(lst)
          /\ WordCountStatistic_median(lst) = MiddleOf(lst)
          /\ MeanOrZero(lst) = IF lst = <<>> THEN <<0, 1>> ELSE <<SumSeq(lst), Len(lst)>>
          /\ MeanOrZero(lst)[2] > 0
    /\ MiddleOf(<<1, 2, 3>>) = <<2, 1>>
    /\ MiddleOf(<<1, 2, 3, 4>>) = <<5, 2>>
    /\ MiddleOf(<<>>) = <<0, 1>>
    /\ \A c \in Files : \A s \in HourArgs :
          /\ get_overall_avg_words_per_message(word_count_stats[c], s, FALSE)[2] > 0
          /\ get_overall_avg_words_per_message(word_count_stats[c], s, TRUE)
                = MiddleOf(WordCountsOf(c, s))
          /\ \A h \in Hours :
                LET lst == IF s = None
                           THEN GetD(MergeSenders(EmptyDict, word_count_stats[c].words_per_message_by_hour), h, <<>>)
                           ELSE GetD(GetD(word_count_stats[c].words_per_message_by_hour, s, EmptyDict), h, <<>>)
                IN /\ get_words_per_message_by_hour(word_count_stats[c], s, TRUE).avg_words[h + 1]
                        = MiddleOf(lst)
                   /\ get_words_per_message_by_hour(word_count_stats[c], s, FALSE).avg_words[h + 1][2] > 0

\* four messages of A in one hour with 4, 2, 1 and 3 words: the median of the hour is 2.5,
\* the mean is 10/4, and after three of them the median was the middle element
C13_Witness ==
    /\ pos[1] = 5
    /\ word_count_stats[1].words_per_message_by_hour["A"][10] = <<4, 2, 1, 3>>
    /\ get_words_per_message_by_hour(word_count_stats[1], "A", TRUE).avg_words[11] = <<5, 2>>
    /\ get_words_per_message_by_hour(word_count_stats[1], "A", FALSE).avg_words[11] = <<10, 4>>
    /\ get_words_per_message_by_hour(word_count_stats[1], "A", TRUE).avg_words[12] = <<0, 1>>
    /\ double_text_stats[1].time_between_by_hour["A"][10] = <<0, 0, 0>>

-----------------------------------------------------------------------------
(* C14: a granularity outside the five. *)

\* the results of every timeline query of a file for a sender argument and a granularity
TimelineResults(c, s, period) ==
    {get_timeline(st, s, period) : st \in Trackers(c)}
    \cup {get_item_timeline(emoji_stats[c], s, period, 15, b) : b \in BOOLEAN}
    \cup {get_sent_received_ratio_timeline(double_text_stats[c], s, period),
          get_total_words_timeline(word_count_stats[c], s, period)}
    \cup UNION {{get_avg_time_between_timeline(double_text_stats[c], s, period, m),
                 get_response_time_timeline(response_time_stats[c], s, period, m),
                 get_words_per_message_timeline(word_count_stats[c], s, period, m)} :
                m \in BOOLEAN}

\* C14: every timeline query with a granularity outside hour, day, week, month, year
\* fails with an error and returns no result, for every tracker state and sender
\* argument, an empty tracker and a never-recorded sender included
C14_InvalidGranularityFails ==
    \A c \in Files : \A s \in HourArgs :
        \A r \in TimelineResults(c, s, "decade") : r = ValueError

-----------------------------------------------------------------------------
(* C15: sender labels. *)

Labels == {None, "A", "Alice", "B", "Bob", "Unknown", "Zed"}

\* the sender keys of a file's thread, and those whose display name is a label
KeysOf(c) == {thread[c][i].sender : i \in 1..Len(thread[c])}
NamedBy(c, label) ==
    {thread[c][i].sender : i \in {j \in 1..Len(thread[c]) : thread[c][j].sender_name = label}}

\* the label names a sender of the file, by key or by display name
Resolves(c, label) == label \in KeysOf(c) \/ NamedBy(c, label) # {}

\* the loaded conversations in which the label names a sender
Resolving(label) == SelectSeq(conversations, LAMBDA c : Resolves(c, label))

-----------------------------------------------------------------------------
(* C16, C17: the rankings. *)

\* the date ranges the rankings are asked for: none, and the eight days of the inputs
RankingRanges == {<<NoneDate, NoneDate>>, <<Date(2024, 12, 30), Date(2025, 1, 6)>>}

\* two messages of the conversation are at least five days apart
SpansFiveDays(c) ==
    \E i, j \in 1..Len(thread[c]) :
        /\ IsMessage(thread[c][i]) /\ IsMessage(thread[c][j])
        /\ MinutesBetween(thread[c][i].timestamp, thread[c][j].timestamp) >= 5 * 24 * 60

\* C16: no conversation whose messages span fewer than 5 days is in a messages-per-day
\* ranking, with or without a date range
C16_ShortConversationsExcluded ==
    phase = "ready" =>
        \A range \in RankingRanges :
            LET compared == get_conversation_comparison_data("messages_per_day", 10,
                                                             range[1], range[2])
                top == top_n_chats_by_avg_messages_per_day("You", 10, range[1], range[2])
            IN /\ \A i \in 1..Len(compared) : SpansFiveDays(compared[i].name)
               /\ \A i \in 1..Len(top) : SpansFiveDays(top[i][1])

\* the entries of a ranking are in non-increasing order of the fraction key, and no
\* entry of the full ranking that is left out has a larger key than one that is returned
RankedBy(returned, full, key(_)) ==
    /\ \A i \in 1..(Len(returned) - 1) : FracLeq(key(returned[i + 1]), key(returned[i]))
    /\ \A x \in Range(full) \ Range(returned) : \A y \in Range(returned) :
          FracLeq(key(x), key(y))

\* C17: every ranking asked for N >= 0 entries returns at most N entries, in non-increasing
\* order of the metric it was asked to rank by, and leaves out no conversation with a
\* larger metric than a returned one
C17_TopNRanking ==
    phase = "ready" =>
        \A range \in RankingRanges : \A n \in 0..2 :
            LET all == Len(conversations)
                sent(k) == top_n_chats_by_messages_sent("You", k, range[1], range[2])
                attached(k) == top_n_chats_by_attachments_sent("You", k, range[1], range[2])
                per_day(k) == top_n_chats_by_avg_messages_per_day("You", k, range[1], range[2])
                compared(sort_by, k) ==
                    get_conversation_comparison_data(sort_by, k, range[1], range[2])
                everyone(sort_by) ==
                    [i \in 1..all |-> ComparisonEntry(conversations[i], range[1], range[2])]
            IN /\ Len(sent(n)) <= n /\ RankedBy(sent(n), sent(all), LAMBDA x : <<x[2], 1>>)
               /\ Len(attached(n)) <= n
               /\ RankedBy(attached(n), attached(all), LAMBDA x : <<x[2], 1>>)
               /\ Len(per_day(n)) <= n /\ RankedBy(per_day(n), per_day(all), LAMBDA x : x[2])
               /\ \A sort_by \in {"total_messages", "messages_per_day"} :
                     /\ Len(compared(sort_by, n)) <= n
                     /\ RankedBy(compared(sort_by, n),
                                 SelectSeq(everyone(sort_by),
                                           LAMBDA r : sort_by = "total_messages"
                                                      \/ r.duration_days >= 5),
                                 LAMBDA x : SortKeyOf(x, sort_by))

-----------------------------------------------------------------------------
(* C18, C19, C20: reactions without a parent, malformed items, failures. *)

\* __init__ of the conversation of the file has returned
Loaded(c) == pc[c] \in {"stats", "returned", "collected"} /\ pos[c] > 0

\* the guids of the messages of a file's thread
MessageGuids(c) == {thread[c][i].guid : i \in {j \in 1..Len(thread[c]) : IsMessage(thread[c][j])}}

\* C18: after a conversation is loaded, every reaction whose assoc_guid is the guid of a
\* message of the conversation is in the reaction list of that message, whether the
\* reaction or the message came first in the file
C18_ReactionsReconciled ==
    \A c \in Files :
        Loaded(c) =>
            \A i \in 1..Len(thread[c]) :
                (IsReaction(thread[c][i]) /\ thread[c][i].assoc_guid \in MessageGuids(c))
                    => thread[c][i].guid \in Range(messages[c][thread[c][i].assoc_guid])

\* C19: a step that reads a malformed record, message or reaction, skips it: the load
\* goes on, skipped_count grows by one, and the thread keeps its records
C19_MalformedSkipped ==
    [][\A c \in Files : \A t \in FaultyItems :
          LoadItemRaises(c, [t EXCEPT !.guid = NextGuid(c)])
              => /\ pc'[c] = "loading"
                 /\ skipped_count'[c] = skipped_count[c] + 1
                 /\ thread'[c] = thread[c]]_vars

\* C20: a conversation whose load or statistics pass failed is not in the conversation
\* list: every listed conversation has trackers that hold its whole thread
C20_NoPartialTrackers ==
    \A k \in 1..Len(conversations) :
        LET c == conversations[k]
        IN pos[c] = Len(thread[c]) + 1

-----------------------------------------------------------------------------
(* Two export files loaded by two workers at once: ThreadPoolExecutor with    *)
(* max_workers 2.  Each file holds plain messages of A and B of one hour.     *)

\* Total number of items over both files in the parallel specification.
MaxItemsParallel == 3

ParallelItems ==
    {Item(FALSE, sender, At(Day, 10, 0), <<"h", "i">>, None, FALSE, 0) : sender \in {"A", "B"}}

InitParallel ==
    /\ max_workers = 2
    /\ json_files = <<1, 2>>
    /\ NothingLoaded

LoadParallelItem(c) ==
    \E t \in ParallelItems :
        /\ TotalItems < MaxItemsParallel
        /\ LoadItem(c, [t EXCEPT !.guid = NextGuid(c)])

NextParallel ==
    \/ \E c \in Files : Start(c)
    \/ \E c \in Files : LoadParallelItem(c)
    \/ \E c \in Files : BeginStats(c)
    \/ \E c \in Files : RecordNext(c)
    \/ \E c \in Files : Return(c)
    \/ \E c \in Files : Collect(c)
    \/ FinishLoading

SpecParallel == InitParallel /\ [][NextParallel]_vars

-----------------------------------------------------------------------------
(* C21: the workers and the conversation list. *)

\* everything the statistics pass of a file writes
Written(c) ==
    <<senders[c], message_stats[c], attachment_stats[c], emoji_stats[c],
      double_text_stats[c], response_time_stats[c], word_count_stats[c]>>

Listed == {conversations[k] : k \in 1..Len(conversations)}

\* the statistics pass of a file has gone through its whole thread
PassFinished(c) == pos[c] = Len(thread[c]) + 1 /\ pc[c] \in {"returned", "collected"}

\* a listed conversation has finished its pass, is listed once, and the loader returns
\* only when the worker of every file is done and collected
C21_ListedAfterPass ==
    /\ \A c \in Listed : PassFinished(c)
    /\ \A j, k \in 1..Len(conversations) : conversations[j] = conversations[k] => j = k
    /\ phase = "ready" => \A c \in Files : InJsonFiles(c) => pc[c] = "collected"

\* a step writes the trackers of at most one file, that file is in the hands of its
\* own running worker, and it is not a listed conversation
C21_OneWriter ==
    LET touched == {c \in Files : Written(c)' # Written(c) \/ thread'[c] # thread[c]}
    IN /\ Cardinality(touched) <= 1
       /\ \A c \in touched : Running(c) /\ c \notin Listed

\* C21: under every interleaving of the workers, a conversation is listed only after its
\* own statistics pass has finished, the trackers of a listed conversation never change
\* afterwards, every write of a tracker is by the one worker of its file, and the loader
\* hands over to metadata and queries only when every worker is done
C21_ExposedOnlyWhenComplete == []C21_ListedAfterPass /\ [][C21_OneWriter]_vars

\* the second file is listed while the worker of the first file, submitted before it,
\* is in the middle of its statistics pass
C21_Witness ==
    /\ conversations = <<2>>
    /\ pc[1] = "stats"
    /\ pos[1] = 2
    /\ Len(thread[1]) = 2
    /\ Len(thread[2]) = 1

-----------------------------------------------------------------------------
(* Two export files of messages of A and B and reactions of B, on the Monday  *)
(* of one week at two hours and on the Monday of the next week.                *)

\* Total number of items over both files in the query specification.
MaxItemsQueries == 3

QueryTimes == {At(Date(2024, 12, 30), 10, 0), At(Date(2024, 12, 30), 11, 30),
               At(Date(2025, 1, 6), 10, 0)}

QueryItems ==
    {Item(FALSE, "A", t, Words(1), None, FALSE, 0) : t \in QueryTimes}
    \cup {Item(FALSE, "B", t, Words(2), "IMG_1.heic", FALSE, 0) : t \in QueryTimes}
    \cup {Item(TRUE, "B", t, <<"L", "o", "v", "e", "d">>, None, FALSE, 1) : t \in QueryTimes}

LoadQueryItem(c) ==
    \E t \in QueryItems :
        /\ TotalItems < MaxItemsQueries
        /\ LoadItem(c, [t EXCEPT !.guid = NextGuid(c)])

NextQueries ==
    \/ \E c \in Files : Start(c)
    \/ \E c \in Files : LoadQueryItem(c)
    \/ \E c \in Files : BeginStats(c)
    \/ \E c \in Files : RecordNext(c)
    \/ \E c \in Files : Return(c)
    \/ \E c \in Files : Collect(c)
    \/ FinishLoading

SpecQueries == Init /\ [][NextQueries]_vars

-----------------------------------------------------------------------------
(* C22: the shape of the timelines. *)

\* the sender arguments of the timeline queries; "Z" is never a sender
TimelineArgs == {None, "A", "B", "Z"}

\* no range, one day, every day, and a range with an open end
QueryRanges ==
    {<<NoneDate, NoneDate>>, <<Date(2024, 12, 30), Date(2024, 12, 30)>>,
     <<Date(2024, 12, 30), Date(2025, 1, 6)>>, <<Date(2025, 1, 6), NoneDate>>}

\* the count timelines of a conversation, each with the {hour key: count} data it reads
CountTimelinesOf(c, s, p) ==
    {<<get_timeline(st, s, p),
       IF s = None THEN st.timeline ELSE GetD(st.timeline_by_sender, s, EmptyDict)>> :
        st \in Trackers(c)}
    \cup {<<get_total_words_timeline(word_count_stats[c], s, p),
            IF s = None THEN SumSenders(EmptyDict, word_count_stats[c].total_words_timeline)
            ELSE GetD(word_count_stats[c].total_words_timeline, s, EmptyDict)>>}

\* the {hour key: list} data of a sender argument in a table of lists
ListsData(table, s) == IF s = None THEN MergeSenders(EmptyDict, table) ELSE GetD(table, s, EmptyDict)

\* the median and mean timelines of a conversation as <<dates, values, use_median, data>>
ListTimelinesOf(c, s, p) ==
    UNION {{<<get_avg_time_between_timeline(double_text_stats[c], s, p, m).dates,
              get_avg_time_between_timeline(double_text_stats[c], s, p, m).avg_minutes, m,
              ListsData(double_text_stats[c].time_between_timeline, s)>>,
            <<get_response_time_timeline(response_time_stats[c], s, p, m).dates,
              get_response_time_timeline(response_time_stats[c], s, p, m).avg_minutes, m,
              ListsData(response_time_stats[c].response_time_timeline, s)>>,
            <<get_words_per_message_timeline(word_count_stats[c], s, p, m).dates,
              get_words_per_message_timeline(word_count_stats[c], s, p, m).avg_words, m,
              ListsData(word_count_stats[c].words_per_message_timeline, s)>>} :
           m \in BOOLEAN}

\* the combined count timelines
CombinedCountTimelines(s, p, r) ==
    {get_combined_messages_timeline(s, p, r[1], r[2]),
     get_combined_double_texts_timeline(s, p, r[1], r[2]),
     get_combined_attachments_timeline(s, p, r[1], r[2]),
     get_combined_total_words_timeline(s, p, r[1], r[2])}

\* the combined median and mean timelines as <<dates, values>>
CombinedListTimelines(s, p, r) ==
    UNION {{<<get_combined_response_time_timeline(s, p, m, r[1], r[2]).dates,
              get_combined_response_time_timeline(s, p, m, r[1], r[2]).avg_minutes>>,
            <<get_combined_words_per_message_timeline(s, p, m, r[1], r[2]).dates,
              get_combined_words_per_message_timeline(s, p, m, r[1], r[2]).avg_words>>,
            <<get_combined_avg_time_between_double_texts_timeline(s, p, m, r[1], r[2]).dates,
              get_combined_avg_time_between_double_texts_timeline(s, p, m, r[1], r[2]).avg_minutes>>} :
           m \in BOOLEAN}

\* strictly ascending dates, hence no duplicate, and one value for each date
WellFormed(dates, values) ==
    /\ \A i \in 1..(Len(dates) - 1) : KeyLess(dates[i], dates[i + 1])
    /\ DOMAIN values = 1..Len(dates)

\* the hour keys of a data map that fall into a bucket
KeysIn(data, p, bucket) == {k \in DOMAIN data : _get_period_key(k, p) = bucket}

\* the buckets of the data are the dates, and the i-th count is the sum of the i-th bucket
CountsBelong(timeline, data, p) ==
    /\ Range(timeline.dates) = {_get_period_key(k, p) : k \in DOMAIN data}
    /\ \A i \in 1..Len(timeline.dates) :
          timeline.counts[i] = SumDict([k \in KeysIn(data, p, timeline.dates[i]) |-> data[k]])

\* the i-th median or mean is that of the observations of the i-th bucket
ValuesBelong(dates, values, use_median, data, p) ==
    /\ Range(dates) = {_get_period_key(k, p) : k \in DOMAIN data}
    /\ \A i \in 1..Len(dates) :
          LET all == ExtendValues(<<>>, [k \in KeysIn(data, p, dates[i]) |-> data[k]])
          IN values[i] = IF use_median THEN MiddleOf(all) ELSE <<SumSeq(all), Len(all)>>

\* C22: every count, median and mean timeline, of a tracker and combined, has strictly
\* ascending dates and one value for each date; the i-th value of a tracker's timeline is
\* that of the i-th bucket; a count timeline has no zero count; and a sender that was
\* never recorded gives empty lists
C22_TimelinesAligned ==
    phase = "ready" =>
        \A s \in TimelineArgs : \A p \in Periods :
            /\ \A c \in Files :
                  /\ \A t \in CountTimelinesOf(c, s, p) :
                        /\ WellFormed(t[1].dates, t[1].counts)
                        /\ CountsBelong(t[1], t[2], p)
                        /\ \A i \in 1..Len(t[1].counts) : t[1].counts[i] > 0
                        /\ s = "Z" => t[1] = EmptyTimeline
                  /\ \A t \in ListTimelinesOf(c, s, p) :
                        /\ WellFormed(t[1], t[2])
                        /\ ValuesBelong(t[1], t[2], t[3], t[4], p)
                        /\ s = "Z" => (t[1] = <<>> /\ t[2] = <<>>)
            /\ \A r \in QueryRanges :
                  /\ \A t \in CombinedCountTimelines(s, p, r) :
                        /\ WellFormed(t.dates, t.counts)
                        /\ \A i \in 1..Len(t.counts) : t.counts[i] > 0
                        /\ s = "Z" => t = EmptyTimeline
                  /\ \A t \in CombinedListTimelines(s, p, r) :
                        /\ WellFormed(t[1], t[2])
                        /\ s = "Z" => (t[1] = <<>> /\ t[2] = <<>>)

\* A and B answer each other on the first Monday and B writes again a week later: the
\* combined weekly response timeline of all senders has two buckets, in order
C22_Witness ==
    /\ phase = "ready"
    /\ get_timeline(message_stats[1], None, "week")
           = [dates |-> <<Date(2024, 12, 30), Date(2025, 1, 6)>>, counts |-> <<2, 1>>]
    /\ get_combined_response_time_timeline(None, "week", TRUE, NoneDate, NoneDate).dates
           = <<Date(2024, 12, 30)>>
    /\ get_timeline(message_stats[1], "Z", "week") = EmptyTimeline

-----------------------------------------------------------------------------
(* One export file of messages of A, B and the None sender and of reactions of *)
(* A and B, five minutes before an hour and at the hour.                       *)

\* Number of items of the single file in the stream specification.
MaxItemsStream == 4

StreamTimes == {At(Day, 9, 55), At(Day, 10, 0)}

StreamItems ==
    {Item(FALSE, sender, t, Words(1), None, FALSE, 0) :
        sender \in {"A", "B", None}, t \in StreamTimes}
    \cup {Item(FALSE, "A", At(Day, 10, 0), Words(2), None, FALSE, 0)}
    \cup {Item(TRUE, sender, t, <<"L", "o", "v", "e", "d">>, None, FALSE, 1) :
             sender \in {"A", "B"}, t \in StreamTimes}

LoadStreamItem(c) ==
    \E t \in StreamItems :
        /\ TotalItems < MaxItemsStream
        /\ LoadItem(c, [t EXCEPT !.guid = NextGuid(c)])

NextStream ==
    \/ \E c \in Files : Start(c)
    \/ \E c \in Files : LoadStreamItem(c)
    \/ \E c \in Files : BeginStats(c)
    \/ \E c \in Files : RecordNext(c)
    \/ \E c \in Files : Return(c)
    \/ \E c \in Files : Collect(c)
    \/ FinishLoading

SpecStream == InitOneFile /\ [][NextStream]_vars

-----------------------------------------------------------------------------
(* C23: what counts as a double text. *)

\* the hour buckets of the stream
StreamBuckets == {Combine(t.date, t.hour) : t \in StreamTimes}

\* the processed double texts of a sender in a bucket: the messages whose nearest
\* preceding message, reactions skipped, is of the same sender
DoubleTextsIn(c, s, b) ==
    {o \in Processed(c) : /\ IsDoubleText(c, o[2])
                          /\ Ev(o).sender = s
                          /\ HourKeyOf(o) = b}

\* C23: for a sender with a key that is not None the double-text count of an hour bucket
\* is the number of its messages of the bucket whose nearest preceding message, reactions
\* skipped, is its own; a reaction neither interrupts a run nor is a double text, and the
\* first message of the stream is none
C23_DoubleTextCount ==
    \A c \in Files : \A s \in {"A", "B"} : \A b \in StreamBuckets :
        /\ Get(GetD(double_text_stats[c].timeline_by_sender, s, EmptyDict), b)
               = Cardinality(DoubleTextsIn(c, s, b))
        /\ DOMAIN GetD(double_text_stats[c].timeline_by_sender, s, EmptyDict) \subseteq StreamBuckets

\* A writes, B reacts, A writes in the next hour and A reacts: one double text of A, in
\* the bucket of the second message, and none of B
C23_Witness ==
    /\ pos[1] = 5
    /\ IsMessage(thread[1][1]) /\ thread[1][1].sender = "A"
    /\ IsReaction(thread[1][2]) /\ thread[1][2].sender = "B"
    /\ IsMessage(thread[1][3]) /\ thread[1][3].sender = "A"
    /\ IsReaction(thread[1][4]) /\ thread[1][4].sender = "A"
    /\ thread[1][3].timestamp = At(Day, 10, 0)
    /\ thread[1][1].timestamp = At(Day, 9, 55)
    /\ double_text_stats[1].timeline_by_sender = [s \in {"A"} |-> [b \in {Combine(Day, 10)} |-> 1]]

-----------------------------------------------------------------------------
(* One export file of messages of A and B that hold one emoji three times or   *)
(* another emoji once, on three days.                                          *)

\* Number of items of the single file in the emoji specification.
MaxItemsEmoji == 3

EmojiTexts == {<<"U+1F600", "U+1F600", "U+1F600">>, <<"U+2764">>}

EmojiItems ==
    {Item(FALSE, sender, At(d, 10, 0), text, None, FALSE, 0) :
        sender \in {"A", "B"}, d \in Days, text \in EmojiTexts}

LoadEmojiItem(c) ==
    \E t \in EmojiItems :
        /\ TotalItems < MaxItemsEmoji
        /\ LoadItem(c, [t EXCEPT !.guid = NextGuid(c)])

NextEmoji ==
    \/ \E c \in Files : Start(c)
    \/ \E c \in Files : LoadEmojiItem(c)
    \/ \E c \in Files : BeginStats(c)
    \/ \E c \in Files : RecordNext(c)
    \/ \E c \in Files : Return(c)
    \/ \E c \in Files : Collect(c)
    \/ FinishLoading

SpecEmoji == InitOneFile /\ [][NextEmoji]_vars

-----------------------------------------------------------------------------
(* C24: which emojis the emoji timeline and the emoji by-hour query select. *)

\* the processed messages a sender argument covers
EmojiEvents(c, s) == {o \in Processed(c) : IsMessage(Ev(o)) /\ s \in {None, Ev(o).sender}}

\* the emojis of those messages
EmojisUsed(c, s) == {e \in EMOJI_DATA : \E o \in EmojiEvents(c, s) : Occurrences(Ev(o).text, e) > 0}

\* the occurrences of an emoji in the messages of a set
OccurrencesIn(S, e) ==
    SumSeq([i \in 1..Cardinality(S) |->
               Occurrences(Ev(CHOOSE o \in S : Cardinality({q \in S : q[2] < o[2]}) = i - 1).text, e)])

\* the occurrences of an emoji in a bucket
InBucket(c, s, p, d, e) ==
    OccurrencesIn({o \in EmojiEvents(c, s) : BucketOf(DayOf(o), p) = d}, e)

EmojiBuckets(c, s, p) == {BucketOf(DayOf(o), p) : o \in EmojiEvents(c, s)}

\* the first message that holds the emoji: the place of the emoji in the key order
FirstUse(c, s, e) ==
    CHOOSE i \in 1..Len(thread[c]) :
        /\ <<c, i>> \in EmojiEvents(c, s) /\ Occurrences(thread[c][i].text, e) > 0
        /\ \A j \in 1..(i - 1) :
              ~(<<c, j>> \in EmojiEvents(c, s) /\ Occurrences(thread[c][j].text, e) > 0)

\* e is one of the top_n emojis of bucket d: fewer than top_n emojis are ahead of it, by
\* a higher count in the bucket or, with the same count, by an earlier first use
InTopOf(c, s, p, d, e, top_n) ==
    Cardinality({f \in EmojisUsed(c, s) \ {e} :
                    \/ InBucket(c, s, p, d, f) > InBucket(c, s, p, d, e)
                    \/ /\ InBucket(c, s, p, d, f) = InBucket(c, s, p, d, e)
                       /\ FirstUse(c, s, f) < FirstUse(c, s, e)}) < top_n

\* in how many buckets the emoji is one of the top_n
TopCount(c, s, p, e, top_n) ==
    Cardinality({d \in EmojiBuckets(c, s, p) : InTopOf(c, s, p, d, e, top_n)})

Smaller(a, b) == IF a < b THEN a ELSE b

EmojiPeriods == {"day", "week", "year"}

\* C24: without include_all the emoji timeline returns at most top_n series, those of the
\* top_n emojis by the number of buckets in which the emoji is one of the bucket's top_n
\* by count; the by-hour query returns those of the top_n emojis by total count; and with
\* at most top_n distinct emojis both return what include_all returns
C24_EmojiSelection ==
    \A c \in Files : \A s \in {None, "A", "B"} : \A top_n \in 0..2 :
        LET used == EmojisUsed(c, s)
            hourly == DOMAIN get_item_by_hour(emoji_stats[c], s, top_n, FALSE).emojis
        IN /\ \A p \in EmojiPeriods :
                 LET chosen == DOMAIN get_item_timeline(emoji_stats[c], s, p, top_n, FALSE).emojis
                     often == {e \in used : TopCount(c, s, p, e, top_n) > 0}
                 IN /\ chosen \subseteq often
                    /\ Cardinality(chosen) = Smaller(top_n, Cardinality(often))
                    /\ \A e \in chosen : \A f \in used \ chosen :
                          TopCount(c, s, p, e, top_n) >= TopCount(c, s, p, f, top_n)
                    /\ Cardinality(used) <= top_n =>
                          get_item_timeline(emoji_stats[c], s, p, top_n, FALSE)
                              = get_item_timeline(emoji_stats[c], s, p, top_n, TRUE)
           /\ hourly \subseteq used
           /\ Cardinality(hourly) = Smaller(top_n, Cardinality(used))
           /\ \A e \in hourly : \A f \in used \ hourly :
                 OccurrencesIn(EmojiEvents(c, s), e) >= OccurrencesIn(EmojiEvents(c, s), f)
           /\ Cardinality(used) <= top_n =>
                 get_item_by_hour(emoji_stats[c], s, top_n, FALSE)
                     = get_item_by_hour(emoji_stats[c], s, top_n, TRUE)

\* one emoji three times on one day and the other once on each of two days: with top_n 1
\* the daily timeline returns the emoji of the two days, the by-hour query the emoji with
\* the higher total
C24_Witness ==
    /\ pos[1] = 4
    /\ DOMAIN get_item_timeline(emoji_stats[1], None, "day", 1, FALSE).emojis = {"U+2764"}
    /\ DOMAIN get_item_by_hour(emoji_stats[1], None, 1, FALSE).emojis = {"U+1F600"}
    /\ DOMAIN get_item_timeline(emoji_stats[1], None, "day", 2, FALSE).emojis
           = {"U+2764", "U+1F600"}

-----------------------------------------------------------------------------
(* C25: the four maps of a tracker. *)

\* the sum over the senders of the entry of key k in a {sender: {key: count}} table
SumOverSenders(by_sender, k) ==
    SumDict([s \in DOMAIN by_sender |-> Get(by_sender[s], k)])

\* the four maps of a tracker agree
MapsAgree(st) ==
    /\ DOMAIN st.timeline = UNION {DOMAIN st.timeline_by_sender[s] : s \in DOMAIN st.timeline_by_sender}
    /\ DOMAIN st.by_hour = UNION {DOMAIN st.by_hour_by_sender[s] : s \in DOMAIN st.by_hour_by_sender}
    /\ DOMAIN st.by_hour = {k.hour : k \in DOMAIN st.timeline}
    /\ \A k \in DOMAIN st.timeline : st.timeline[k] = SumOverSenders(st.timeline_by_sender, k)
    /\ \A h \in DOMAIN st.by_hour :
          /\ st.by_hour[h] = SumOverSenders(st.by_hour_by_sender, h)
          /\ st.by_hour[h] = SumDict([k \in {x \in DOMAIN st.timeline : x.hour = h} |-> st.timeline[k]])

\* m is d with 1 added at key k and nothing else changed
PlusOneAt(m, d, k) ==
    /\ DOMAIN m = DOMAIN d \cup {k}
    /\ \A x \in DOMAIN m : m[x] = Get(d, x) + (IF x = k THEN 1 ELSE 0)

\* one call on a tracker: 1 more in the four entries of the call, every other entry and
\* every other field as before
OneCall(st, sender, date, hour) ==
    LET new == _record_base(st, sender, date, hour)
        key == Combine(date, hour)
    IN /\ PlusOneAt(new.timeline, st.timeline, key)
       /\ PlusOneAt(new.by_hour, st.by_hour, hour)
       /\ DOMAIN new.timeline_by_sender = DOMAIN st.timeline_by_sender \cup {sender}
       /\ DOMAIN new.by_hour_by_sender = DOMAIN st.by_hour_by_sender \cup {sender}
       /\ \A s \in DOMAIN new.timeline_by_sender :
             IF s = sender
             THEN PlusOneAt(new.timeline_by_sender[s], GetD(st.timeline_by_sender, s, EmptyDict), key)
             ELSE new.timeline_by_sender[s] = st.timeline_by_sender[s]
       /\ \A s \in DOMAIN new.by_hour_by_sender :
             IF s = sender
             THEN PlusOneAt(new.by_hour_by_sender[s], GetD(st.by_hour_by_sender, s, EmptyDict), hour)
             ELSE new.by_hour_by_sender[s] = st.by_hour_by_sender[s]
       /\ \A f \in DOMAIN st \ {"timeline", "timeline_by_sender", "by_hour", "by_hour_by_sender"} :
             new[f] = st[f]

\* C25: a call of _record_base adds exactly 1 to the four entries of its sender, hour key
\* and hour and changes nothing else; so in every tracker timeline[k] is the sum over the
\* senders of timeline_by_sender[s][k], by_hour[h] the sum over the senders of
\* by_hour_by_sender[s][h], and by_hour[h] the sum of timeline[k] over the keys of hour h
C25_FourMapsInStep ==
    \A c \in Files : \A st \in Trackers(c) :
        /\ MapsAgree(st)
        /\ \A sender \in {"A", "B", None} : \A t \in StreamTimes :
              OneCall(st, sender, t.date, t.hour)

\* the message tracker after two events of A at 09:55 and one of B and one of the None
\* sender at 10:00
C25_Witness ==
    /\ pos[1] = 5
    /\ message_stats[1].timeline = [k \in StreamBuckets |-> 2]
    /\ message_stats[1].by_hour = [h \in {9, 10} |-> 2]
    /\ DOMAIN message_stats[1].timeline_by_sender = {"A", "B", None}
    /\ message_stats[1].by_hour_by_sender["A"] = [h \in {9} |-> 2]

-----------------------------------------------------------------------------
(* The queries as steps: what a call leaves behind in the trackers it reads.   *)
(* The tables of the trackers are defaultdicts, so a read d[k] of a missing    *)
(* key would insert it; emojis_by_sender is a plain dict, read behind the same  *)
(* membership test.                                                            *)

\* a defaultdict after the read d[k]
Index(d, k) == IF k \in DOMAIN d THEN d ELSE Put(d, k, EmptyDict)

\* a defaultdict after "if k not in d: return ..." followed by the read d[k]
GuardedIndex(d, k) == IF k \notin DOMAIN d THEN d ELSE Index(d, k)

\* a tracker after its tables of the set fields were read at the key k in this way
Queried(st, k, fields) ==
    [f \in DOMAIN st |-> IF f \in fields THEN GuardedIndex(st[f], k) ELSE st[f]]

\* the tables that get_timeline and get_by_hour read at a sender argument that is not None
BaseTables(s) == IF s = None THEN {} ELSE {"timeline_by_sender", "by_hour_by_sender"}

\* the tables the queries of each tracker read at their sender argument: the ratio
\* timeline and get_totals read theirs also at None
DoubleTextTables(s) ==
    BaseTables(s) \cup {"sent_timeline"}
    \cup (IF s = None THEN {} ELSE {"time_between_timeline", "time_between_by_hour"})

ResponseTimeTables(s) ==
    BaseTables(s)
    \cup (IF s = None THEN {} ELSE {"response_time_timeline", "response_time_by_hour"})

WordCountTables(s) ==
    BaseTables(s)
    \cup (IF s = None THEN {}
          ELSE {"total_words_timeline", "words_per_message_timeline", "words_per_message_by_hour"})

EmojiTables(s) ==
    BaseTables(s) \cup {"emojis_by_sender"}
    \cup (IF s = None THEN {} ELSE {"item_timeline_by_sender", "item_by_hour_by_sender"})

\* every query of the six trackers of a listed conversation, called with the sender
\* argument s
QueryTrackers(c, s) ==
    /\ phase = "ready"
    /\ \E k \in 1..Len(conversations) : conversations[k] = c
    /\ message_stats' = [message_stats EXCEPT ![c] = Queried(@, s, BaseTables(s))]
    /\ attachment_stats' = [attachment_stats EXCEPT ![c] = Queried(@, s, BaseTables(s))]
    /\ emoji_stats' = [emoji_stats EXCEPT ![c] = Queried(@, s, EmojiTables(s))]
    /\ double_text_stats' = [double_text_stats EXCEPT ![c] = Queried(@, s, DoubleTextTables(s))]
    /\ response_time_stats' = [response_time_stats EXCEPT ![c] = Queried(@, s, ResponseTimeTables(s))]
    /\ word_count_stats' = [word_count_stats EXCEPT ![c] = Queried(@, s, WordCountTables(s))]
    /\ UNCHANGED <<max_workers, json_files, pc, thread, messages, skipped_count, pos,
                   senders, conversations, phase>>

\* every combined query of the aggregator, called with the sender label: each reads the
\* tables of every listed conversation at the key the label resolves to there (the
\* combined ratio timeline reads sent_timeline with get, which never inserts)
QueryCombined(sender_label) ==
    /\ phase = "ready"
    /\ LET listed == {conversations[k] : k \in 1..Len(conversations)}
           key(c) == _resolve_sender_key(c, sender_label)
           tables(c, own) == BaseTables(key(c)) \cup (IF sender_label = None THEN {} ELSE own)
       IN /\ message_stats' =
                 [c \in Files |-> IF c \notin listed THEN message_stats[c]
                                  ELSE Queried(message_stats[c], key(c),
                                               tables(c, {"timeline_by_sender"}))]
          /\ attachment_stats' =
                 [c \in Files |-> IF c \notin listed THEN attachment_stats[c]
                                  ELSE Queried(attachment_stats[c], key(c), BaseTables(key(c)))]
          /\ emoji_stats' =
                 [c \in Files |-> IF c \notin listed THEN emoji_stats[c]
                                  ELSE Queried(emoji_stats[c], key(c), EmojiTables(key(c)))]
          /\ double_text_stats' =
                 [c \in Files |-> IF c \notin listed THEN double_text_stats[c]
                                  ELSE Queried(double_text_stats[c], key(c),
                                               tables(c, {"time_between_timeline",
                                                          "time_between_by_hour"}))]
          /\ response_time_stats' =
                 [c \in Files |-> IF c \notin listed THEN response_time_stats[c]
                                  ELSE Queried(response_time_stats[c], key(c),
                                               tables(c, {"response_time_timeline",
                                                          "response_time_by_hour"}))]
          /\ word_count_stats' =
                 [c \in Files |-> IF c \notin listed THEN word_count_stats[c]
                                  ELSE Queried(word_count_stats[c], key(c),
                                               tables(c, {"words_per_message_timeline",
                                                          "words_per_message_by_hour",
                                                          "total_words_timeline"}))]
    /\ UNCHANGED <<max_workers, json_files, pc, thread, messages, skipped_count, pos,
                   senders, conversations, phase>>

\* Total number of items over both files in the read-only specification.
MaxItemsReadOnly == 3

QuerySenderArgs == {None, "A", "B", "Z"}

LoadReadOnlyItem(c) ==
    \E t \in QueryItems :
        /\ TotalItems < MaxItemsReadOnly
        /\ LoadItem(c, [t EXCEPT !.guid = NextGuid(c)])

NextReadOnly ==
    \/ \E c \in Files : Start(c)
    \/ \E c \in Files : LoadReadOnlyItem(c)
    \/ \E c \in Files : BeginStats(c)
    \/ \E c \in Files : RecordNext(c)
    \/ \E c \in Files : Return(c)
    \/ \E c \in Files : Collect(c)
    \/ FinishLoading
    \/ \E c \in Files, s \in QuerySenderArgs : QueryTrackers(c, s)
    \/ \E sender_label \in QuerySenderArgs : QueryCombined(sender_label)

SpecReadOnly == Init /\ [][NextReadOnly]_vars

-----------------------------------------------------------------------------
(* C26: the queries are read-only. *)

-----------------------------------------------------------------------------
(* C27: the occurrence counts and the observation lists of a tracker. *)

\* the count and the list that two-level tables hold for a sender and an hour key,
\* 0 and the empty list where nothing was recorded
CountAt(table, s, k) == IF s \in DOMAIN table /\ k \in DOMAIN table[s] THEN table[s][k] ELSE 0

ListAt(table, s, k) == IF s \in DOMAIN table /\ k \in DOMAIN table[s] THEN table[s][k] ELSE <<>>

\* the senders and the hour keys under which a tracker holds a count or a list
KeysOfTables(tables) ==
    UNION {UNION {{<<s, k>> : k \in DOMAIN tables[i][s]} : s \in DOMAIN tables[i]} :
           i \in 1..Len(tables)}

\* C27: in every state of the statistics pass, for every sender and hour key, the count
\* of double texts is the length of the list of times since the streak start, the count
\* of responses is the length of the list of response times, and the count of messages
\* with words is the length of the list of word counts, whose sum is the total of words.
C27_CountsMatchLists ==
    \A c \in Files :
        LET d == double_text_stats[c]
            r == response_time_stats[c]
            w == word_count_stats[c]
        IN /\ \A p \in KeysOfTables(<<d.timeline_by_sender, d.time_between_timeline>>) :
                  CountAt(d.timeline_by_sender, p[1], p[2])
                      = Len(ListAt(d.time_between_timeline, p[1], p[2]))
           /\ \A p \in KeysOfTables(<<r.timeline_by_sender, r.response_time_timeline>>) :
                  CountAt(r.timeline_by_sender, p[1], p[2])
                      = Len(ListAt(r.response_time_timeline, p[1], p[2]))
           /\ \A p \in KeysOfTables(<<w.timeline_by_sender, w.words_per_message_timeline,
                                      w.total_words_timeline>>) :
                  /\ CountAt(w.timeline_by_sender, p[1], p[2])
                         = Len(ListAt(w.words_per_message_timeline, p[1], p[2]))
                  /\ CountAt(w.total_words_timeline, p[1], p[2])
                         = SumSeq(ListAt(w.words_per_message_timeline, p[1], p[2]))

\* A sent three messages of one, two and one words, the last two in the hour of 10:00,
\* and B answered: two double texts with two times, one response with one time, two
\* messages with three words
C27_Witness ==
    LET k == Combine(Day, 10)
    IN /\ pos[1] = 5
       /\ CountAt(double_text_stats[1].timeline_by_sender, "A", k) = 2
       /\ Len(ListAt(double_text_stats[1].time_between_timeline, "A", k)) = 2
       /\ CountAt(response_time_stats[1].timeline_by_sender, "B", k) = 1
       /\ Len(ListAt(response_time_stats[1].response_time_timeline, "B", k)) = 1
       /\ ListAt(word_count_stats[1].words_per_message_timeline, "A", k) = <<2, 1>>
       /\ CountAt(word_count_stats[1].total_words_timeline, "A", k) = 3

-----------------------------------------------------------------------------
(* C28: a date range that contains every event. *)

\* C28: once the conversations are loaded, for every sender argument and each of the five
\* granularities, get_combined_messages_timeline with the range from the first to the
\* last day of the events returns what the same call returns with no date range.
C28_FullRangeNeutral ==
    phase = "ready" =>
        \A s \in TimelineArgs : \A p \in Periods :
            get_combined_messages_timeline(s, p, Date(2024, 12, 30), Date(2025, 1, 6))
                = get_combined_messages_timeline(s, p, NoneDate, NoneDate)

-----------------------------------------------------------------------------
(* C29: the two paths of the totals of messages sent. *)

\* C29: once the conversations are loaded, for every sender, total_messages_sent and
\* top_n_chats_by_messages_sent return with the range from the first to the last day
\* of the events what they return with no date range, also when there are reactions.
C29_PathsAgree ==
    phase = "ready" =>
        \A s \in {"A", "B", "Z"} :
            /\ total_messages_sent(s, Date(2024, 12, 30), Date(2025, 1, 6))
                   = total_messages_sent(s, NoneDate, NoneDate)
            /\ \A n \in 0..2 :
                   top_n_chats_by_messages_sent(s, n, Date(2024, 12, 30), Date(2025, 1, 6))
                       = top_n_chats_by_messages_sent(s, n, NoneDate, NoneDate)

-----------------------------------------------------------------------------
(* C30: the order in which the workers finish. *)

\* the list of conversations of the run in which the two workers finish in the other
\* order: the trackers of a conversation are written by its own worker only, so the two
\* runs differ in the order of the list alone
OtherCompletionOrder == [i \in 1..Len(conversations) |-> conversations[Len(conversations) + 1 - i]]

\* C30: once two conversations are loaded, the combined message timeline at every
\* granularity and the ranking of the chats by messages sent are those of the run in
\* which the workers finish in the other order, also when the two conversations hold
\* the same number of messages of the sender.
C30_OrderIndependent ==
    (phase = "ready" /\ Len(conversations) = 2) =>
        \A s \in {None, "A", "B"} :
            /\ \A p \in Periods :
                   SortedResult(MessagesTimelineOver(EmptyDict, OtherCompletionOrder, s, p,
                                                     NoneDate, NoneDate))
                       = get_combined_messages_timeline(s, p, NoneDate, NoneDate)
            /\ \A n \in 0..2 :
                   TopNMessagesSentOver(OtherCompletionOrder, s, n, NoneDate, NoneDate)
                       = top_n_chats_by_messages_sent(s, n, NoneDate, NoneDate)

=============================================================================
